---- MODULE Spec2Model ----
(***************************************************************************)
(* Model of the godns query-execution engine: Query / MultiQuery           *)
(* (fan-out, collection, address deduplication), queryServer (protocol     *)
(* dispatch and answer mapping) and the retry loops of queryUDPTCP,        *)
(* queryDoT and queryDoH.                                                  *)
(*                                                                         *)
(* One task per configured server position runs queryServer.  A task step  *)
(* is one stretch of code between two suspension points (a network         *)
(* exchange, the backoff select).  The network, the proxy and the resolver *)
(* are the environment: the outcome of an exchange is chosen               *)
(* nondeterministically among the outcomes the code distinguishes.         *)
(*                                                                         *)
(* Specifications:                                                         *)
(*   Spec       Query and MultiQuery over the configured servers           *)
(*   SpecTimed  one single-server query with the steps of the tunneled     *)
(*              exchange and a clock                                       *)
(*   SpecNew    New and the options                                        *)
(*   SpecDoT    queryDoT and the target of its exchanges                   *)
(*   SpecTunnel concurrent single-server queries through a SOCKS5 proxy    *)
(* Each specification holds the state of the others fixed.                 *)
(***************************************************************************)
EXTENDS Integers, Sequences, FiniteSets, TLC

----------------------------------------------------------------------------
(* Bounds of the model *)

MaxServers == 3      \* configured servers
MaxExchanges == 4    \* exchanges one call can make: servers x (retries + 1)
MaxRecords == 2      \* resource records the resolvers return in one call
MaxAttempts == 3     \* attempts of the timed single-server query: retries + 1
MaxTime == 6         \* ticks of 100ms the clock of the timed query runs
MaxQueries == 2      \* concurrent tunneled queries

(* Program constants *)

BackoffUnitMs == 100
TypeA == 1
TypeCNAME == 5
TypeTXT == 16
TypeAAAA == 28

----------------------------------------------------------------------------
(* Values *)

Nil == "<nil>"

(* A pointer or slice that may be nil: the empty sequence is nil. *)
NilPtr == << >>
Ptr(x) == <<x>>

UDP == "udp"
TCP == "tcp"
DoT == "dot"
DoH == "doh"
Protocols == {UDP, TCP, DoT, DoH, "quic"}

NoProxy == ""
SOCKS5 == "socks5"
HTTPProxy == "http"
ProxyTypes == {NoProxy, SOCKS5, HTTPProxy, "socks4"}

ServerPool == <<"223.5.5.5:53", "114.114.114.114:53", "8.8.8.8:53", "1.1.1.1:53">>

Domain == "example.com"
Fqdn(d) == IF d = "example.com" THEN "example.com." ELSE d

ErrNoServers == "no DNS servers configured"
ErrUnsupportedProtocol == "unsupported protocol"
ErrCanceled == "context canceled"
ErrDeadline == "context deadline exceeded"
ErrTimeout == "i/o timeout"
ErrRefused == "connection refused"
ErrDialer == "failed to create proxy dialer: unsupported proxy type for dialer"
ErrProxyDial == "failed to dial through proxy"
ErrTLS == "TLS handshake failed"
ErrWrite == "failed to write DNS message"
ErrRead == "failed to read DNS response"
ErrProxyURL == "failed to get proxy URL: unsupported proxy type"
ErrHTTPStatus == "HTTP error"
ErrBody == "failed to read response body"
ErrUnpack == "failed to unpack DNS response"

(* Addresses as the resolver library holds them (net.IP), and their text. *)
IPv4a == <<93, 184, 216, 34>>
IPv6a == <<8193, 3512, 0, 0, 0, 0, 0, 1>>
KnownIPs == {IPv4a, IPv6a}

IPString(ip) ==
    CASE ip = IPv4a -> "93.184.216.34"
      [] ip = IPv6a -> "2001:db8::1"
      [] OTHER -> "<nil>"

ParseIP(s) ==
    IF \E ip \in KnownIPs : IPString(ip) = s
    THEN CHOOSE ip \in KnownIPs : IPString(ip) = s
    ELSE NilPtr

(* Resource records an answer can carry. *)
RRs ==
    { [Name |-> Fqdn(Domain), Rrtype |-> TypeA, Ttl |-> 300, Data |-> IPv4a],
      [Name |-> Fqdn(Domain), Rrtype |-> TypeAAAA, Ttl |-> 300, Data |-> IPv6a],
      [Name |-> Fqdn(Domain), Rrtype |-> TypeCNAME, Ttl |-> 300, Data |-> "cdn.example.net."] }

SeqsUpTo(S, n) == UNION { [1..k -> S] : k \in 0..n }

Answers == SeqsUpTo(RRs, MaxRecords)

QTypes == {TypeA, TypeAAAA, TypeTXT}

----------------------------------------------------------------------------
(* queryServer: mapping of the answer into a QueryResult *)

RecordValue(rr) ==
    CASE rr.Rrtype = TypeA -> IPString(rr.Data)
      [] rr.Rrtype = TypeAAAA -> IPString(rr.Data)
      [] OTHER -> rr.Data

MapRR(rr) ==
    [Name |-> rr.Name, Type |-> rr.Rrtype, TTL |-> rr.Ttl, Value |-> RecordValue(rr)]

MapAnswer(answer) == [k \in 1..Len(answer) |-> MapRR(answer[k])]

ErrorResult(domain, qtype, server, err) ==
    [Domain |-> domain, Type |-> qtype, Records |-> << >>, Error |-> err, Server |-> server]

(* Lines 154-194 of queryServer, given what the transport strategy returned. *)
(* A nil response with a nil error is dereferenced (response.Answer): panic. *)
QueryServerMap(domain, qtype, server, response, err) ==
    IF err # Nil
    THEN [res |-> Ptr(ErrorResult(domain, qtype, server, err)), err |-> err, panic |-> FALSE]
    ELSE IF response = NilPtr
    THEN [res |-> NilPtr, err |-> Nil, panic |-> TRUE]
    ELSE [res |-> Ptr([Domain |-> domain, Type |-> qtype,
                       Records |-> MapAnswer(response[1].Answer),
                       Error |-> Nil, Server |-> server]),
          err |-> Nil, panic |-> FALSE]

(* The goroutine of MultiQuery substitutes a result when queryServer gave none. *)
Substitute(domain, qtype, srv, r) ==
    IF r.res = NilPtr THEN ErrorResult(domain, qtype, srv, r.err) ELSE r.res[1]

----------------------------------------------------------------------------
(* The exchange of one attempt, as seen by the retry loop *)

Ok(answer) == [kind |-> "ok", response |-> Ptr([Answer |-> answer]), err |-> Nil]
Fail(kind, err) == [kind |-> kind, response |-> NilPtr, err |-> err]

(* The outcome o of an exchange whose connection went the way v: "direct"   *)
(* (to the server), "proxy" (to the proxy), "none" (no connection made).    *)
Via(o, v) == [kind |-> o.kind, response |-> o.response, err |-> o.err, via |-> v]

CtxErr(c) == IF c = "canceled" THEN ErrCanceled
             ELSE IF c = "deadline" THEN ErrDeadline ELSE Nil

(* dns.Client.ExchangeContext: it dials with the context, so it cannot      *)
(* succeed once the context is done.                                       *)
DirectOutcomes(c) ==
    { Via(Fail("transport", e), "direct") : e \in {ErrTimeout, ErrRefused} }
    \cup (IF c = "live" THEN { Via(Ok(a), "direct") : a \in Answers } ELSE {})

(* Variant: a proxy type the dialer does not know is ignored and the        *)
(* exchange is made directly.                                              *)
ProxyOutcomes_FallbackDirect(protocol, proxyType, c) ==
    IF proxyType # SOCKS5
    THEN DirectOutcomes(c)
    ELSE { Via(Fail("transport", e), "proxy") :
              e \in {ErrProxyDial, ErrWrite, ErrRead}
                    \cup (IF protocol = DoT THEN {ErrTLS} ELSE {}) }
         \cup { Via(Ok(a), "proxy") : a \in Answers }
         \cup (IF c = "live" THEN {} ELSE { Via(Fail("transport", CtxErr(c)), "proxy") })

(* exchangeWithProxy / exchangeDoTWithProxy: createDialer accepts SOCKS5    *)
(* only; the dial is not bound to the context; the exchange is raced        *)
(* against ctx.Done().                                                      *)
ProxyOutcomes(protocol, proxyType, c) ==
    IF proxyType # SOCKS5
    THEN { Via(Fail("transport", ErrDialer), "none") }
    ELSE { Via(Fail("transport", e), "proxy") :
              e \in {ErrProxyDial, ErrWrite, ErrRead}
                    \cup (IF protocol = DoT THEN {ErrTLS} ELSE {}) }
         \cup { Via(Ok(a), "proxy") : a \in Answers }
         \cup (IF c = "live" THEN {} ELSE { Via(Fail("transport", CtxErr(c)), "proxy") })

(* The way the HTTP client of queryDoH connects: a client supplied in the   *)
(* configuration is used as it is, with its own transport; the client       *)
(* built otherwise has the proxy URL of the configuration, if any.          *)
DoHRoute(proxyType, httpClient) ==
    IF httpClient # NilPtr
    THEN (IF httpClient[1].Proxy = NilPtr THEN "direct" ELSE "proxy")
    ELSE IF proxyType = NoProxy THEN "direct" ELSE "proxy"

(* One iteration of the loop of queryDoH: httpClient.Do fails (transport), *)
(* or the reply is not a usable answer (application layer).                *)
DoHOutcomes(c, route) ==
    { Via(Fail("transport", e), route) : e \in {ErrTimeout, ErrRefused} }
    \cup (IF c = "live"
          THEN { Via(Fail("app", e), route) : e \in {ErrHTTPStatus, ErrBody, ErrUnpack} }
               \cup { Via(Ok(a), route) : a \in Answers }
          ELSE {})

ExchangeOutcomes(protocol, proxyType, httpClient, c) ==
    IF protocol = DoH THEN DoHOutcomes(c, DoHRoute(proxyType, httpClient))
    ELSE IF proxyType # NoProxy THEN ProxyOutcomes(protocol, proxyType, c)
    ELSE DirectOutcomes(c)

----------------------------------------------------------------------------
(* The retry loops *)

BackoffMs(i) == BackoffUnitMs * (i + 1)

(* What the loop does with the outcome o of iteration i, lastErr being le: *)
(* next is "return" (response, err), "backoff" (the select) or "again"     *)
(* (the next iteration at once).                                           *)
Returns(response, err, le) ==
    [next |-> "return", response |-> response, err |-> err, lastErr |-> le]
Continues(next, le) ==
    [next |-> next, response |-> NilPtr, err |-> Nil, lastErr |-> le]

(* Variant: on exhaustion the first error is kept, not the last. *)
AfterAttempt_FirstErr(i, retries, o, le) ==
    IF o.err = Nil
    THEN Returns(o.response, Nil, le)
    ELSE IF i < retries
    THEN Continues("backoff", IF le = Nil THEN o.err ELSE le)
    ELSE Returns(NilPtr, IF le = Nil THEN o.err ELSE le, IF le = Nil THEN o.err ELSE le)

(* Variant: a success does not leave the loop while retries remain. *)
AfterAttempt_ContinueOnSuccess(i, retries, o, le) ==
    IF i < retries
    THEN Continues("backoff", IF o.err = Nil THEN le ELSE o.err)
    ELSE Returns(o.response, o.err, o.err)

(* queryUDPTCP lines 26-53, queryDoT lines 142-168. *)
AfterAttempt(i, retries, o, le) ==
    IF o.err = Nil
    THEN Returns(o.response, Nil, le)
    ELSE IF i < retries
    THEN Continues("backoff", o.err)
    ELSE Returns(NilPtr, o.err, o.err)

(* queryDoH lines 216-270. *)
AfterAttemptDoH(i, retries, o, le) ==
    IF o.kind = "ok"
    THEN Returns(o.response, Nil, le)
    ELSE IF o.kind = "transport"
    THEN IF i < retries
         THEN Continues("backoff", o.err)
         ELSE Returns(NilPtr, o.err, o.err)
    ELSE IF i < retries
         THEN Continues("again", o.err)
         ELSE Returns(NilPtr, o.err, o.err)

LoopStep(protocol, i, retries, o, le) ==
    IF protocol = DoH THEN AfterAttemptDoH(i, retries, o, le)
    ELSE AfterAttempt(i, retries, o, le)

----------------------------------------------------------------------------
(* MultiQuery: collection of one result *)

(* Variant: addresses are collected for every query type. *)
IsAddressQuery_AnyType(qtype) == qtype = qtype

(* Line 111: the query types whose records feed AllIPs. *)
IsAddressQuery(qtype) == qtype = TypeA \/ qtype = TypeAAAA

(* Variant: no look-up in the dedup set. *)
RECURSIVE AddIPs_NoDedup(_, _, _, _)
AddIPs_NoDedup(acc, records, k, qtype) ==
    IF k > Len(records) THEN acc
    ELSE LET v == records[k].Value
             add == IsAddressQuery(qtype) /\ ParseIP(v) # NilPtr
         IN AddIPs_NoDedup(IF add THEN [ipSet |-> acc.ipSet \cup {v},
                                        AllIPs |-> Append(acc.AllIPs, v)]
                           ELSE acc,
                           records, k + 1, qtype)

(* Variant: a new address is put in front. *)
RECURSIVE AddIPs_Prepend(_, _, _, _)
AddIPs_Prepend(acc, records, k, qtype) ==
    IF k > Len(records) THEN acc
    ELSE LET v == records[k].Value
             add == IsAddressQuery(qtype) /\ ParseIP(v) # NilPtr /\ v \notin acc.ipSet
         IN AddIPs_Prepend(IF add THEN [ipSet |-> acc.ipSet \cup {v},
                                        AllIPs |-> <<v>> \o acc.AllIPs]
                           ELSE acc,
                           records, k + 1, qtype)

(* Variant: only the first record of a result is looked at. *)
RECURSIVE AddIPs_FirstRecordOnly(_, _, _, _)
AddIPs_FirstRecordOnly(acc, records, k, qtype) ==
    IF k > Len(records) \/ k > 1 THEN acc
    ELSE LET v == records[k].Value
             add == IsAddressQuery(qtype) /\ ParseIP(v) # NilPtr /\ v \notin acc.ipSet
         IN AddIPs_FirstRecordOnly(IF add THEN [ipSet |-> acc.ipSet \cup {v},
                                                AllIPs |-> Append(acc.AllIPs, v)]
                                   ELSE acc,
                                   records, k + 1, qtype)

(* Lines 109-118: the addresses of one result, records[k..], added to acc.  *)
RECURSIVE AddIPs(_, _, _, _)
AddIPs(acc, records, k, qtype) ==
    IF k > Len(records) THEN acc
    ELSE LET v == records[k].Value
             add == IsAddressQuery(qtype) /\ ParseIP(v) # NilPtr /\ v \notin acc.ipSet
         IN AddIPs(IF add THEN [ipSet |-> acc.ipSet \cup {v}, AllIPs |-> Append(acc.AllIPs, v)]
                   ELSE acc,
                   records, k + 1, qtype)

(* Variant: a failed result is not kept. *)
CollectOne_DropFailed(result, ipSet, res, qtype) ==
    IF res.Error # Nil
    THEN [result |-> result, ipSet |-> ipSet]
    ELSE LET acc == AddIPs([ipSet |-> ipSet, AllIPs |-> result.AllIPs], res.Records, 1, qtype)
         IN [result |-> [result EXCEPT !.Results = Append(result.Results, res),
                                       !.AllIPs = acc.AllIPs],
             ipSet |-> acc.ipSet]

(* Variant: a result is put in front of Results. *)
CollectOne_Prepend(result, ipSet, res, qtype) ==
    LET acc == IF res.Error = Nil
               THEN AddIPs([ipSet |-> ipSet, AllIPs |-> result.AllIPs], res.Records, 1, qtype)
               ELSE [ipSet |-> ipSet, AllIPs |-> result.AllIPs]
    IN [result |-> [result EXCEPT !.Results = <<res>> \o result.Results,
                                  !.AllIPs = acc.AllIPs],
        ipSet |-> acc.ipSet]

(* Lines 105-118: the body of the collecting loop for the received res. *)
CollectOne(result, ipSet, res, qtype) ==
    LET acc == IF res.Error = Nil
               THEN AddIPs([ipSet |-> ipSet, AllIPs |-> result.AllIPs], res.Records, 1, qtype)
               ELSE [ipSet |-> ipSet, AllIPs |-> result.AllIPs]
    IN [result |-> [result EXCEPT !.Results = Append(result.Results, res),
                                  !.AllIPs = acc.AllIPs],
        ipSet |-> acc.ipSet]

----------------------------------------------------------------------------
(* State *)

VARIABLES
    cfg,          \* Config: Servers, Retries, Protocol, ProxyType, HTTPClient (read-only)
    call,         \* the call in progress: op (Query / MultiQuery), domain, qtype
    ctx,          \* the caller's context: "live", "canceled", "deadline"
    mpc,          \* position of the caller: "call", "launch", "collect", "wait", "done"
    launched,     \* number of goroutines MultiQuery has started
    resultChan,   \* the buffered channel of MultiQuery
    result,       \* the MultiQueryResult being built
    ipSet,        \* the dedup set of MultiQuery
    collecti,     \* the loop variable i of the collecting loop of MultiQuery
    drained,      \* history: the values received from resultChan, in order
    sent,         \* history: the tasks in the order they sent on resultChan
    topRet,       \* what Query / MultiQuery returned: result pointer and error
    crashed,      \* a goroutine panicked: the process is gone
    pc,           \* per task: "idle", "start", "attempt", "backoff", "done", "panic"
    loopi,        \* per task: the loop variable i of the retry loop
    lastErr,      \* per task: lastErr of the retry loop
    attempts,     \* history, per task: number of exchanges started
    waits,        \* history, per task: the backoff waits completed, in ms
    lastAttempt,  \* history, per task: outcome of the latest exchange
    ret           \* history, per task: what queryServer returned

mainVars == <<mpc, launched, resultChan, result, ipSet, collecti, drained, sent, topRet>>
taskVars == <<pc, loopi, lastErr, attempts, waits, lastAttempt, ret>>

(* State of the timed single-server query (specification SpecTimed): one    *)
(* run of queryUDPTCP / queryDoT with the steps of the tunneled exchange    *)
(* and a clock.  The clock counts ticks of 100ms from the call.             *)
VARIABLES
    qcfg,         \* the configuration read: Protocol, ProxyType, Retries, Timeout (ticks)
    deadline,     \* the deadline of the caller's context, in ticks; NoDeadline if it has none
    now,          \* the clock
    qpc,          \* "loop", "dial", "select", "direct", "backoff", "returned", "off"
    qi,           \* the loop variable i of the retry loop
    qlastErr,     \* lastErr of the retry loop
    started,      \* the time the wait in progress began
    conn,         \* per attempt: the tunneled connection: "none", "open", "closed"
    connDeadline, \* per attempt: the deadline set on the connection
    worker,       \* per attempt: the goroutine of the exchange: "none", "handshake",
                  \*   "write", "read", "done"
    tchan,        \* per attempt: the resultChan of the exchange
    lastExchange, \* history: what the latest exchange returned, and when
    qret          \* what the strategy returned, and when

timedVars == <<qcfg, deadline, now, qpc, qi, qlastErr, started, conn, connDeadline, worker,
               tchan, lastExchange, qret>>

(* State of the construction of a client (specification SpecNew). *)
VARIABLES
    opts,         \* the options given to New, in argument order
    config,       \* the Config being built
    optk,         \* options applied so far by the loop of New
    client        \* the Client returned by New: a pointer to its config, nil before

newVars == <<opts, config, optk, client>>

(* State of one run of queryDoT (specification SpecDoT). *)
VARIABLES
    dotServer,    \* the argument server, as a sequence of characters
    dotTarget,    \* the local variable server the exchanges are given
    dotRetries,   \* Config.Retries
    dotPc,        \* "off", "entry", "loop", "backoff", "returned"
    dotI,         \* the loop variable i
    dotDialed     \* history: the target of each attempt

dotVars == <<dotServer, dotTarget, dotRetries, dotPc, dotI, dotDialed>>

(* State of concurrent tunneled queries (specification SpecTunnel): the     *)
(* single-server queries of a fan-out through a SOCKS5 proxy, each with the *)
(* locals of every call of exchangeWithProxy it makes.                      *)
VARIABLES
    xretries,     \* Config.Retries
    xpc,          \* per query: "off", "loop", "select", "backoff", "returned"
    xi,           \* per query: the loop variable i of the retry loop
    xlastErr,     \* per query: lastErr of the retry loop
    xconn,        \* per query and attempt: conn of that call: "none", "open", "closed"
    xworker,      \* per query and attempt: the goroutine of that call: "none", "run", "done"
    xchan,        \* per query and attempt: resultChan of that call
    xgot,         \* history, per query: the values its selects received, with the attempt
    xret          \* per query: what the strategy returned

tunnelVars == <<xretries, xpc, xi, xlastErr, xconn, xworker, xchan, xgot, xret>>

auxVars == <<timedVars, newVars, dotVars, tunnelVars>>

vars == <<cfg, call, ctx, mpc, launched, resultChan, result, ipSet, collecti, drained, sent, topRet,
          crashed, pc, loopi, lastErr, attempts, waits, lastAttempt, ret, auxVars>>

Tasks == 1..MaxServers

NoAttempt == [kind |-> "none", response |-> NilPtr, err |-> Nil, via |-> "none"]
NoReturn == [res |-> NilPtr, err |-> Nil, panic |-> FALSE]
NoTopRet == [res |-> NilPtr, err |-> Nil]

Attempts == 1..MaxAttempts
NoDeadline == -1
NoExchange == [response |-> NilPtr, err |-> Nil, at |-> -1]

Queries == 1..MaxQueries
NoOutcome == [response |-> NilPtr, err |-> Nil]

(* The configurations tried.  With one server every protocol and proxy     *)
(* type; a fan-out over several servers with one transport of each kind    *)
(* (direct, tunneled, DoH, unsupported).  HTTPClient is nil or a client     *)
(* whose transport has no proxy; only queryDoH reads it.                    *)
FanTransports == { <<UDP, NoProxy>>, <<DoT, SOCKS5>>, <<DoH, NoProxy>>, <<"quic", NoProxy>> }

HTTPClients == { NilPtr, Ptr([Proxy |-> NilPtr]) }

Configs ==
    { c \in [Servers : { SubSeq(ServerPool, 1, n) : n \in 0..MaxServers },
             Retries : (-1)..(MaxExchanges - 1),
             Protocol : Protocols,
             ProxyType : ProxyTypes,
             HTTPClient : HTTPClients] :
        /\ Len(c.Servers) * (c.Retries + 1) <= MaxExchanges
        /\ Len(c.Servers) >= 2 => <<c.Protocol, c.ProxyType>> \in FanTransports
        /\ c.HTTPClient # NilPtr => (c.Protocol = DoH /\ Len(c.Servers) = 1) }

Calls == { [op |-> o, domain |-> Domain, qtype |-> q] : o \in {"Query", "MultiQuery"}, q \in QTypes }

InitRest ==
    /\ ctx \in {"live", "canceled", "deadline"}
    /\ mpc = "call"
    /\ launched = 0
    /\ resultChan = << >>
    /\ result = [Domain |-> Nil, Type |-> 0, Results |-> << >>, AllIPs |-> << >>]
    /\ ipSet = {}
    /\ collecti = 0
    /\ drained = << >>
    /\ sent = << >>
    /\ topRet = NoTopRet
    /\ crashed = FALSE
    /\ pc = [i \in Tasks |-> "idle"]
    /\ loopi = [i \in Tasks |-> 0]
    /\ lastErr = [i \in Tasks |-> Nil]
    /\ attempts = [i \in Tasks |-> 0]
    /\ waits = [i \in Tasks |-> << >>]
    /\ lastAttempt = [i \in Tasks |-> NoAttempt]
    /\ ret = [i \in Tasks |-> NoReturn]

(* The timed query is not running. *)
TimedOff ==
    /\ qcfg = [Protocol |-> UDP, ProxyType |-> NoProxy, Retries |-> 0, Timeout |-> 0]
    /\ deadline = NoDeadline
    /\ now = 0
    /\ qpc = "off"
    /\ qi = 0
    /\ qlastErr = Nil
    /\ started = 0
    /\ conn = [k \in Attempts |-> "none"]
    /\ connDeadline = [k \in Attempts |-> NoDeadline]
    /\ worker = [k \in Attempts |-> "none"]
    /\ tchan = [k \in Attempts |-> << >>]
    /\ lastExchange = NoExchange
    /\ qret = NoExchange

(* No client is being built. *)
NewOff ==
    /\ opts = << >>
    /\ config = NilPtr
    /\ optk = 0
    /\ client = NilPtr

(* queryDoT is not running. *)
DoTOff ==
    /\ dotServer = << >>
    /\ dotTarget = << >>
    /\ dotRetries = 0
    /\ dotPc = "off"
    /\ dotI = 0
    /\ dotDialed = << >>

(* No tunneled queries are running. *)
TunnelOff ==
    /\ xretries = 0
    /\ xpc = [q \in Queries |-> "off"]
    /\ xi = [q \in Queries |-> 0]
    /\ xlastErr = [q \in Queries |-> Nil]
    /\ xconn = [q \in Queries |-> [k \in Attempts |-> "none"]]
    /\ xworker = [q \in Queries |-> [k \in Attempts |-> "none"]]
    /\ xchan = [q \in Queries |-> [k \in Attempts |-> << >>]]
    /\ xgot = [q \in Queries |-> << >>]
    /\ xret = [q \in Queries |-> NoOutcome]

Init ==
    /\ cfg \in Configs
    /\ call \in Calls
    /\ InitRest
    /\ TimedOff
    /\ NewOff
    /\ DoTOff
    /\ TunnelOff

----------------------------------------------------------------------------
(* The caller *)

(* Variant: Query without the check of the server list. *)
QueryCall_NoCheck ==
    /\ mpc = "call" /\ call.op = "Query" /\ ~crashed
    /\ UNCHANGED auxVars
    /\ topRet' = topRet
    /\ mpc' = "wait"
    /\ pc' = [pc EXCEPT ![1] = "start"]
    /\ UNCHANGED <<cfg, call, ctx, launched, resultChan, result, ipSet, collecti, drained,
                   sent, crashed, loopi, lastErr, attempts, waits, lastAttempt, ret>>

(* Query: lines 38-44.  The single-server query runs as task 1. *)
QueryCall ==
    /\ mpc = "call" /\ call.op = "Query" /\ ~crashed
    /\ UNCHANGED auxVars
    /\ IF Len(cfg.Servers) = 0
       THEN /\ topRet' = [res |-> NilPtr, err |-> ErrNoServers]
            /\ mpc' = "done"
            /\ pc' = pc
       ELSE /\ topRet' = topRet
            /\ mpc' = "wait"
            /\ pc' = [pc EXCEPT ![1] = "start"]
    /\ UNCHANGED <<cfg, call, ctx, launched, resultChan, result, ipSet, collecti, drained,
                   sent, crashed, loopi, lastErr, attempts, waits, lastAttempt, ret>>

(* MultiQuery: lines 72-85. *)
MultiQueryCall ==
    /\ mpc = "call" /\ call.op = "MultiQuery" /\ ~crashed
    /\ UNCHANGED auxVars
    /\ IF Len(cfg.Servers) = 0
       THEN /\ topRet' = [res |-> NilPtr, err |-> ErrNoServers]
            /\ mpc' = "done"
            /\ result' = result
       ELSE /\ topRet' = topRet
            /\ mpc' = "launch"
            /\ result' = [Domain |-> call.domain, Type |-> call.qtype,
                          Results |-> << >>, AllIPs |-> << >>]
    /\ UNCHANGED <<cfg, call, ctx, launched, resultChan, ipSet, collecti, drained, sent,
                   crashed, taskVars>>

(* MultiQuery: one iteration of the loop of lines 87-100 (a go statement). *)
Launch ==
    /\ mpc = "launch" /\ ~crashed
    /\ UNCHANGED auxVars
    /\ launched < Len(cfg.Servers)
    /\ launched' = launched + 1
    /\ pc' = [pc EXCEPT ![launched + 1] = "start"]
    /\ mpc' = IF launched + 1 = Len(cfg.Servers) THEN "collect" ELSE "launch"
    /\ UNCHANGED <<cfg, call, ctx, resultChan, result, ipSet, collecti, drained, sent,
                   topRet, crashed, loopi, lastErr, attempts, waits, lastAttempt, ret>>

(* Variant: the first failed result ends MultiQuery with its error. *)
Collect_AbortOnError ==
    /\ mpc = "collect" /\ ~crashed
    /\ UNCHANGED auxVars
    /\ collecti < Len(cfg.Servers)
    /\ resultChan # << >>
    /\ LET res == Head(resultChan)
           c == CollectOne(result, ipSet, res, call.qtype)
       IN /\ resultChan' = Tail(resultChan)
          /\ drained' = Append(drained, res)
          /\ collecti' = collecti + 1
          /\ result' = c.result
          /\ ipSet' = c.ipSet
          /\ IF res.Error # Nil
             THEN /\ mpc' = "done"
                  /\ topRet' = [res |-> NilPtr, err |-> res.Error]
             ELSE IF collecti + 1 < Len(cfg.Servers)
             THEN /\ mpc' = mpc
                  /\ topRet' = topRet
             ELSE /\ mpc' = "done"
                  /\ topRet' = [res |-> Ptr(c.result), err |-> Nil]
    /\ UNCHANGED <<cfg, call, ctx, launched, sent, crashed, taskVars>>

(* Variant: with the context done MultiQuery returns what it has so far. *)
Collect_StopWhenCancelled ==
    /\ mpc = "collect" /\ ~crashed
    /\ UNCHANGED auxVars
    /\ collecti < Len(cfg.Servers)
    /\ resultChan # << >>
    /\ LET res == Head(resultChan)
           c == CollectOne(result, ipSet, res, call.qtype)
       IN /\ resultChan' = Tail(resultChan)
          /\ drained' = Append(drained, res)
          /\ collecti' = collecti + 1
          /\ result' = c.result
          /\ ipSet' = c.ipSet
          /\ IF collecti + 1 < Len(cfg.Servers) /\ ctx = "live"
             THEN /\ mpc' = mpc
                  /\ topRet' = topRet
             ELSE /\ mpc' = "done"
                  /\ topRet' = [res |-> Ptr(c.result), err |-> Nil]
    /\ UNCHANGED <<cfg, call, ctx, launched, sent, crashed, taskVars>>

(* MultiQuery: one iteration of the loop of lines 104-119, and the return   *)
(* of line 121 after the last one.                                         *)
Collect ==
    /\ mpc = "collect" /\ ~crashed
    /\ UNCHANGED auxVars
    /\ collecti < Len(cfg.Servers)
    /\ resultChan # << >>
    /\ LET res == Head(resultChan)
           c == CollectOne(result, ipSet, res, call.qtype)
       IN /\ resultChan' = Tail(resultChan)
          /\ drained' = Append(drained, res)
          /\ collecti' = collecti + 1
          /\ result' = c.result
          /\ ipSet' = c.ipSet
          /\ IF collecti + 1 < Len(cfg.Servers)
             THEN /\ mpc' = mpc
                  /\ topRet' = topRet
             ELSE /\ mpc' = "done"
                  /\ topRet' = [res |-> Ptr(c.result), err |-> Nil]
    /\ UNCHANGED <<cfg, call, ctx, launched, sent, crashed, taskVars>>

(* The caller's context is cancelled, or its deadline passes. *)
Cancel ==
    /\ ctx = "live" /\ mpc # "done" /\ ~crashed
    /\ UNCHANGED auxVars
    /\ ctx' = "canceled"
    /\ UNCHANGED <<cfg, call, crashed, mainVars, taskVars>>

DeadlineExceeded ==
    /\ ctx = "live" /\ mpc # "done" /\ ~crashed
    /\ UNCHANGED auxVars
    /\ ctx' = "deadline"
    /\ UNCHANGED <<cfg, call, crashed, mainVars, taskVars>>

----------------------------------------------------------------------------
(* A task: queryServer for the server at position i *)

(* Resource records the resolvers have returned so far in this call. *)
RECURSIVE RecordsReturned(_, _)
RecordsReturned(la, k) ==
    IF k = 0 THEN 0
    ELSE RecordsReturned(la, k - 1)
         + (IF la[k].kind = "ok" THEN Len(la[k].response[1].Answer) ELSE 0)

(* The outcomes the environment may choose for the next exchange of a task. *)
Outcomes ==
    { o \in ExchangeOutcomes(cfg.Protocol, cfg.ProxyType, cfg.HTTPClient, ctx) :
        o.kind = "ok" =>
          Len(o.response[1].Answer) + RecordsReturned(lastAttempt, MaxServers) <= MaxRecords }

(* Variant: the goroutine of MultiQuery sends nothing for a failed query. *)
Deliver_DropFailed(i, r) ==
    /\ ret' = [ret EXCEPT ![i] = r]
    /\ loopi' = [loopi EXCEPT ![i] = 0]
    /\ lastErr' = [lastErr EXCEPT ![i] = Nil]
    /\ IF r.panic
       THEN /\ crashed' = TRUE
            /\ pc' = [pc EXCEPT ![i] = "panic"]
            /\ UNCHANGED <<resultChan, sent, topRet, mpc>>
       ELSE /\ crashed' = crashed
            /\ pc' = [pc EXCEPT ![i] = "done"]
            /\ IF call.op = "MultiQuery"
               THEN /\ IF r.err # Nil
                       THEN UNCHANGED <<resultChan, sent>>
                       ELSE /\ resultChan' = Append(resultChan,
                                                    Substitute(call.domain, call.qtype,
                                                               cfg.Servers[i], r))
                            /\ sent' = Append(sent, i)
                    /\ UNCHANGED <<topRet, mpc>>
               ELSE /\ topRet' = [res |-> r.res, err |-> r.err]
                    /\ mpc' = "done"
                    /\ UNCHANGED <<resultChan, sent>>

(* Variant: the goroutine of MultiQuery sends a failed result twice. *)
Deliver_SendTwice(i, r) ==
    /\ ret' = [ret EXCEPT ![i] = r]
    /\ loopi' = [loopi EXCEPT ![i] = 0]
    /\ lastErr' = [lastErr EXCEPT ![i] = Nil]
    /\ IF r.panic
       THEN /\ crashed' = TRUE
            /\ pc' = [pc EXCEPT ![i] = "panic"]
            /\ UNCHANGED <<resultChan, sent, topRet, mpc>>
       ELSE /\ crashed' = crashed
            /\ pc' = [pc EXCEPT ![i] = "done"]
            /\ IF call.op = "MultiQuery"
               THEN /\ LET v == Substitute(call.domain, call.qtype, cfg.Servers[i], r)
                       IN resultChan' = IF r.err # Nil
                                        THEN Append(Append(resultChan, v), v)
                                        ELSE Append(resultChan, v)
                    /\ sent' = IF r.err # Nil THEN Append(Append(sent, i), i)
                               ELSE Append(sent, i)
                    /\ UNCHANGED <<topRet, mpc>>
               ELSE /\ topRet' = [res |-> r.res, err |-> r.err]
                    /\ mpc' = "done"
                    /\ UNCHANGED <<resultChan, sent>>

(* The transport strategy returned (response, err): queryServer maps it     *)
(* (lines 154-194) and the result goes to the caller: sent on resultChan by *)
(* the goroutine of MultiQuery (lines 90-98), returned by Query (line 43).  *)
(* The locals of the strategy are gone.                                    *)
Deliver(i, r) ==
    /\ ret' = [ret EXCEPT ![i] = r]
    /\ loopi' = [loopi EXCEPT ![i] = 0]
    /\ lastErr' = [lastErr EXCEPT ![i] = Nil]
    /\ IF r.panic
       THEN /\ crashed' = TRUE
            /\ pc' = [pc EXCEPT ![i] = "panic"]
            /\ UNCHANGED <<resultChan, sent, topRet, mpc>>
       ELSE /\ crashed' = crashed
            /\ pc' = [pc EXCEPT ![i] = "done"]
            /\ IF call.op = "MultiQuery"
               THEN /\ resultChan' = Append(resultChan,
                                            Substitute(call.domain, call.qtype, cfg.Servers[i], r))
                    /\ sent' = Append(sent, i)
                    /\ UNCHANGED <<topRet, mpc>>
               ELSE /\ topRet' = [res |-> r.res, err |-> r.err]
                    /\ mpc' = "done"
                    /\ UNCHANGED <<resultChan, sent>>

Return(i, response, err) ==
    Deliver(i, QueryServerMap(call.domain, call.qtype, cfg.Servers[i], response, err))

(* One iteration of the retry loop, loop variable li: the exchange and what *)
(* follows it up to the next suspension point.                             *)
Exchange(i, li) ==
    \E o \in Outcomes :
       LET s == LoopStep(cfg.Protocol, li, cfg.Retries, o, lastErr[i])
       IN /\ attempts' = [attempts EXCEPT ![i] = @ + 1]
          /\ lastAttempt' = [lastAttempt EXCEPT ![i] = o]
          /\ CASE s.next = "return" -> Return(i, s.response, s.err)
               [] s.next = "backoff" ->
                    /\ pc' = [pc EXCEPT ![i] = "backoff"]
                    /\ loopi' = [loopi EXCEPT ![i] = li]
                    /\ lastErr' = [lastErr EXCEPT ![i] = s.lastErr]
                    /\ UNCHANGED <<ret, crashed, resultChan, sent, topRet, mpc>>
               [] OTHER ->
                    /\ pc' = [pc EXCEPT ![i] = "attempt"]
                    /\ loopi' = [loopi EXCEPT ![i] = li + 1]
                    /\ lastErr' = [lastErr EXCEPT ![i] = s.lastErr]
                    /\ UNCHANGED <<ret, crashed, resultChan, sent, topRet, mpc>>

(* Variant: a protocol the dispatch does not know is given to queryUDPTCP. *)
Begin_NoProtocolCheck(i) ==
    /\ pc[i] = "start" /\ ~crashed
    /\ UNCHANGED auxVars
    /\ IF /\ cfg.Protocol = DoH /\ cfg.HTTPClient = NilPtr
          /\ cfg.ProxyType \notin {NoProxy, SOCKS5, HTTPProxy}
       THEN /\ Return(i, NilPtr, ErrProxyURL)
            /\ UNCHANGED <<attempts, lastAttempt>>
       ELSE IF 0 <= cfg.Retries
       THEN Exchange(i, 0)
       ELSE /\ Return(i, NilPtr, Nil)
            /\ UNCHANGED <<attempts, lastAttempt>>
    /\ UNCHANGED <<cfg, call, ctx, launched, result, ipSet, collecti, drained, waits>>

(* queryServer from its start through the first exchange: the dispatch of   *)
(* lines 143-152, the set-up of the strategy, the loop condition for i = 0. *)
Begin(i) ==
    /\ pc[i] = "start" /\ ~crashed
    /\ UNCHANGED auxVars
    /\ IF cfg.Protocol \notin {UDP, TCP, DoT, DoH}
       THEN /\ Deliver(i, [res |-> NilPtr, err |-> ErrUnsupportedProtocol, panic |-> FALSE])
            /\ UNCHANGED <<attempts, lastAttempt>>
       ELSE IF /\ cfg.Protocol = DoH /\ cfg.HTTPClient = NilPtr
               /\ cfg.ProxyType \notin {NoProxy, SOCKS5, HTTPProxy}
       THEN /\ Return(i, NilPtr, ErrProxyURL)
            /\ UNCHANGED <<attempts, lastAttempt>>
       ELSE IF 0 <= cfg.Retries
       THEN Exchange(i, 0)
       ELSE /\ Return(i, NilPtr, Nil)
            /\ UNCHANGED <<attempts, lastAttempt>>
    /\ UNCHANGED <<cfg, call, ctx, launched, result, ipSet, collecti, drained, waits>>

(* A later iteration of the retry loop. *)
Attempt(i) ==
    /\ pc[i] = "attempt" /\ ~crashed
    /\ UNCHANGED auxVars
    /\ Exchange(i, loopi[i])
    /\ UNCHANGED <<cfg, call, ctx, launched, result, ipSet, collecti, drained, waits>>

(* The select of the backoff: the timer fires while the context is live.    *)
BackoffElapsed(i) ==
    /\ pc[i] = "backoff" /\ ~crashed
    /\ UNCHANGED auxVars
    /\ ctx = "live"
    /\ waits' = [waits EXCEPT ![i] = Append(@, BackoffMs(loopi[i]))]
    /\ loopi' = [loopi EXCEPT ![i] = @ + 1]
    /\ pc' = [pc EXCEPT ![i] = "attempt"]
    /\ UNCHANGED <<cfg, call, ctx, crashed, mainVars, lastErr, attempts, lastAttempt, ret>>

(* Variant: the cancelled wait returns the error of the attempt before it. *)
BackoffCancelled_LastErr(i) ==
    /\ pc[i] = "backoff" /\ ~crashed
    /\ UNCHANGED auxVars
    /\ ctx # "live"
    /\ Return(i, NilPtr, lastErr[i])
    /\ UNCHANGED <<cfg, call, ctx, launched, result, ipSet, collecti, drained,
                   attempts, waits, lastAttempt>>

(* Variant: the goroutine of a cancelled query appends its result to        *)
(* Results itself instead of sending it.                                    *)
BackoffCancelled_WritesResults(i) ==
    /\ pc[i] = "backoff" /\ ~crashed
    /\ UNCHANGED auxVars
    /\ ctx # "live"
    /\ LET r == QueryServerMap(call.domain, call.qtype, cfg.Servers[i], NilPtr, CtxErr(ctx))
       IN /\ ret' = [ret EXCEPT ![i] = r]
          /\ IF call.op = "MultiQuery"
             THEN /\ result' = [result EXCEPT !.Results = Append(@, r.res[1])]
                  /\ UNCHANGED <<topRet, mpc>>
             ELSE /\ topRet' = [res |-> r.res, err |-> r.err]
                  /\ mpc' = "done"
                  /\ result' = result
    /\ pc' = [pc EXCEPT ![i] = "done"]
    /\ loopi' = [loopi EXCEPT ![i] = 0]
    /\ lastErr' = [lastErr EXCEPT ![i] = Nil]
    /\ UNCHANGED <<cfg, call, ctx, launched, resultChan, ipSet, collecti, drained, sent,
                   crashed, attempts, waits, lastAttempt>>

(* The select of the backoff: ctx.Done() is ready. *)
BackoffCancelled(i) ==
    /\ pc[i] = "backoff" /\ ~crashed
    /\ UNCHANGED auxVars
    /\ ctx # "live"
    /\ Return(i, NilPtr, CtxErr(ctx))
    /\ UNCHANGED <<cfg, call, ctx, launched, result, ipSet, collecti, drained,
                   attempts, waits, lastAttempt>>

----------------------------------------------------------------------------

Next ==
    \/ QueryCall
    \/ MultiQueryCall
    \/ Launch
    \/ Collect
    \/ Cancel
    \/ DeadlineExceeded
    \/ \E i \in Tasks : Begin(i)
    \/ \E i \in Tasks : Attempt(i)
    \/ \E i \in Tasks : BackoffElapsed(i)
    \/ \E i \in Tasks : BackoffCancelled(i)

Spec == Init /\ [][Next]_vars

----------------------------------------------------------------------------
(* The timed single-server query: queryUDPTCP / queryDoT step by step.      *)
(* A blocking call takes any number of ticks; a step that is ready is taken *)
(* before the clock moves on.                                               *)

MaxDeadline == 3     \* the latest deadline of the caller's context, in ticks

QCfgs ==
    [Protocol : {UDP, DoT}, ProxyType : {NoProxy, SOCKS5, HTTPProxy},
     Retries : 0..(MaxAttempts - 1), Timeout : {2}]

(* The answers a resolver gives in the timed query. *)
TimedAnswers == SeqsUpTo(RRs, 1)

(* What the timed query leaves alone. *)
queryVars == <<cfg, call, crashed, mainVars, taskVars, newVars, dotVars, tunnelVars>>

(* Query and MultiQuery are not running. *)
QueryOff ==
    /\ cfg = [Servers |-> << >>, Retries |-> 0, Protocol |-> UDP, ProxyType |-> NoProxy,
              HTTPClient |-> NilPtr]
    /\ call = [op |-> "Query", domain |-> Domain, qtype |-> TypeA]
    /\ InitRest

InitTimed ==
    /\ QueryOff
    /\ NewOff
    /\ DoTOff
    /\ TunnelOff
    /\ qcfg \in QCfgs
    /\ deadline \in {NoDeadline} \cup 0..MaxDeadline
    /\ (ctx = "deadline") <=> (deadline = 0)
    /\ now = 0
    /\ qpc = "loop"
    /\ qi = 0
    /\ qlastErr = Nil
    /\ started = 0
    /\ conn = [k \in Attempts |-> "none"]
    /\ connDeadline = [k \in Attempts |-> NoDeadline]
    /\ worker = [k \in Attempts |-> "none"]
    /\ tchan = [k \in Attempts |-> << >>]
    /\ lastExchange = NoExchange
    /\ qret = NoExchange

(* The attempt in progress: iteration i of the loop is attempt i + 1. *)
cur == qi + 1

BackoffTicks(i) == BackoffMs(i) \div BackoffUnitMs

(* The exchange of iteration qi returned (response, err): the rest of the   *)
(* iteration, lines 38-50, up to the return or the select of the backoff.   *)
AfterExchange(response, err) ==
    LET o == [kind |-> IF err = Nil THEN "ok" ELSE "transport",
              response |-> response, err |-> err]
        s == AfterAttempt(qi, qcfg.Retries, o, qlastErr)
    IN /\ lastExchange' = [response |-> response, err |-> err, at |-> now]
       /\ qlastErr' = s.lastErr
       /\ qi' = qi
       /\ IF s.next = "return"
          THEN /\ qpc' = "returned"
               /\ qret' = [response |-> s.response, err |-> s.err, at |-> now]
               /\ started' = started
          ELSE /\ qpc' = "backoff"
               /\ qret' = qret
               /\ started' = now

(* The head of an iteration: lines 30-36, and createDialer (462-465). *)
StartAttempt ==
    /\ qpc = "loop" /\ qi <= qcfg.Retries
    /\ IF qcfg.ProxyType = NoProxy
       THEN /\ qpc' = "direct"
            /\ started' = now
            /\ UNCHANGED <<qi, qlastErr, lastExchange, qret>>
       ELSE IF qcfg.ProxyType # SOCKS5
       THEN AfterExchange(NilPtr, ErrDialer)
       ELSE /\ qpc' = "dial"
            /\ UNCHANGED <<qi, qlastErr, started, lastExchange, qret>>
    /\ UNCHANGED <<ctx, queryVars, qcfg, deadline, now, conn, connDeadline, worker, tchan>>

(* client.ExchangeContext returns: it ends at the per-attempt timeout and   *)
(* when the context is done.                                                *)
DirectReturns ==
    /\ qpc = "direct"
    /\ \E o \in DirectOutcomes(ctx) :
          /\ o.kind = "ok" => (o.response[1].Answer \in TimedAnswers
                                /\ now < started + qcfg.Timeout)
          /\ now >= started + qcfg.Timeout => o.err = ErrTimeout
          /\ AfterExchange(o.response, o.err)
    /\ UNCHANGED <<ctx, queryVars, qcfg, deadline, now, conn, connDeadline, worker, tchan>>

(* Variant: the deadline of the context is not set on the connection. *)
DialReturns_NoSetDeadline ==
    /\ qpc = "dial"
    /\ \/ /\ AfterExchange(NilPtr, ErrProxyDial)
          /\ UNCHANGED <<conn, connDeadline, worker>>
       \/ /\ conn' = [conn EXCEPT ![cur] = "open"]
          /\ connDeadline' = connDeadline
          /\ worker' = [worker EXCEPT ![cur] = IF qcfg.Protocol = DoT THEN "handshake"
                                                ELSE "write"]
          /\ qpc' = "select"
          /\ UNCHANGED <<qi, qlastErr, started, lastExchange, qret>>
    /\ UNCHANGED <<ctx, queryVars, qcfg, deadline, now, tchan>>

(* proxyDialer.Dial returns (468-477, 523-532): it takes no context.  On    *)
(* success the deadline of the context, if any, is set on the connection    *)
(* and the goroutine of the exchange is started.                            *)
DialReturns ==
    /\ qpc = "dial"
    /\ \/ /\ AfterExchange(NilPtr, ErrProxyDial)
          /\ UNCHANGED <<conn, connDeadline, worker>>
       \/ /\ conn' = [conn EXCEPT ![cur] = "open"]
          /\ connDeadline' = [connDeadline EXCEPT ![cur] = deadline]
          /\ worker' = [worker EXCEPT ![cur] = IF qcfg.Protocol = DoT THEN "handshake"
                                                ELSE "write"]
          /\ qpc' = "select"
          /\ UNCHANGED <<qi, qlastErr, started, lastExchange, qret>>
    /\ UNCHANGED <<ctx, queryVars, qcfg, deadline, now, tchan>>

(* I/O on the connection of attempt k fails at once when the connection is  *)
(* closed or its deadline has passed.                                      *)
Broken(k) ==
    \/ conn[k] = "closed"
    \/ connDeadline[k] # NoDeadline /\ now >= connDeadline[k]

StepErr(step) ==
    CASE step = "handshake" -> ErrTLS
      [] step = "write" -> ErrWrite
      [] OTHER -> ErrRead

(* Variant: resultChan has no buffer: a send needs the caller in the select. *)
WorkerStep_Unbuffered(k) ==
    /\ worker[k] \in {"handshake", "write", "read"}
    /\ \/ /\ qpc = "select" /\ k = cur /\ Len(tchan[k]) < 1
          /\ tchan' = [tchan EXCEPT ![k] = Append(@, [response |-> NilPtr,
                                                      err |-> StepErr(worker[k])])]
          /\ worker' = [worker EXCEPT ![k] = "done"]
       \/ /\ ~Broken(k)
          /\ worker[k] # "read"
          /\ worker' = [worker EXCEPT ![k] = IF worker[k] = "handshake" THEN "write"
                                             ELSE "read"]
          /\ tchan' = tchan
       \/ /\ ~Broken(k)
          /\ worker[k] = "read"
          /\ qpc = "select" /\ k = cur /\ Len(tchan[k]) < 1
          /\ \E a \in TimedAnswers :
                tchan' = [tchan EXCEPT ![k] = Append(@, [response |-> Ptr([Answer |-> a]),
                                                        err |-> Nil])]
          /\ worker' = [worker EXCEPT ![k] = "done"]
    /\ UNCHANGED <<ctx, queryVars, qcfg, deadline, now, qpc, qi, qlastErr, started, conn,
                   connDeadline, lastExchange, qret>>

(* One blocking call of the goroutine of attempt k (487-504, 542-567): the  *)
(* TLS handshake, WriteMsg or ReadMsg, and the send that follows it.        *)
WorkerStep(k) ==
    /\ worker[k] \in {"handshake", "write", "read"}
    /\ \/ /\ Len(tchan[k]) < 1
          /\ tchan' = [tchan EXCEPT ![k] = Append(@, [response |-> NilPtr,
                                                      err |-> StepErr(worker[k])])]
          /\ worker' = [worker EXCEPT ![k] = "done"]
       \/ /\ ~Broken(k)
          /\ worker[k] # "read"
          /\ worker' = [worker EXCEPT ![k] = IF worker[k] = "handshake" THEN "write"
                                             ELSE "read"]
          /\ tchan' = tchan
       \/ /\ ~Broken(k)
          /\ worker[k] = "read"
          /\ Len(tchan[k]) < 1
          /\ \E a \in TimedAnswers :
                tchan' = [tchan EXCEPT ![k] = Append(@, [response |-> Ptr([Answer |-> a]),
                                                        err |-> Nil])]
          /\ worker' = [worker EXCEPT ![k] = "done"]
    /\ UNCHANGED <<ctx, queryVars, qcfg, deadline, now, qpc, qi, qlastErr, started, conn,
                   connDeadline, lastExchange, qret>>

(* The select of the exchange (507-512) receives the result; the deferred   *)
(* conn.Close() runs on the return.                                         *)
SelectResult ==
    /\ qpc = "select"
    /\ tchan[cur] # << >>
    /\ tchan' = [tchan EXCEPT ![cur] = Tail(@)]
    /\ conn' = [conn EXCEPT ![cur] = "closed"]
    /\ AfterExchange(Head(tchan[cur]).response, Head(tchan[cur]).err)
    /\ UNCHANGED <<ctx, queryVars, qcfg, deadline, now, connDeadline, worker>>

(* Variant: the return on cancellation leaves the connection to the         *)
(* goroutine, which does not close it.                                      *)
ExchangeCancelled_NoClose ==
    /\ qpc = "select"
    /\ ctx # "live"
    /\ conn' = conn
    /\ AfterExchange(NilPtr, CtxErr(ctx))
    /\ UNCHANGED <<ctx, queryVars, qcfg, deadline, now, connDeadline, worker, tchan>>

(* The select of the exchange takes ctx.Done(): the exchange returns        *)
(* ctx.Err() and leaves its goroutine behind; the deferred conn.Close()     *)
(* runs on the return.                                                      *)
ExchangeCancelled ==
    /\ qpc = "select"
    /\ ctx # "live"
    /\ conn' = [conn EXCEPT ![cur] = "closed"]
    /\ AfterExchange(NilPtr, CtxErr(ctx))
    /\ UNCHANGED <<ctx, queryVars, qcfg, deadline, now, connDeadline, worker, tchan>>

(* The select of the backoff (43-50): the timer. *)
TimerFires ==
    /\ qpc = "backoff"
    /\ now >= started + BackoffTicks(qi)
    /\ qi' = qi + 1
    /\ qpc' = "loop"
    /\ UNCHANGED <<ctx, queryVars, qcfg, deadline, now, qlastErr, started, conn, connDeadline,
                   worker, tchan, lastExchange, qret>>

(* The select of the backoff: ctx.Done(). *)
BackoffAborted ==
    /\ qpc = "backoff"
    /\ ctx # "live"
    /\ qpc' = "returned"
    /\ qret' = [response |-> NilPtr, err |-> CtxErr(ctx), at |-> now]
    /\ UNCHANGED <<ctx, queryVars, qcfg, deadline, now, qi, qlastErr, started, conn,
                   connDeadline, worker, tchan, lastExchange>>

(* A step is ready now: the clock waits for it. *)
Urgent ==
    \/ qpc = "loop"
    \/ qpc = "select" /\ (tchan[cur] # << >> \/ ctx # "live")
    \/ qpc = "backoff" /\ (ctx # "live" \/ now >= started + BackoffTicks(qi))
    \/ qpc = "direct" /\ (ctx # "live" \/ now >= started + qcfg.Timeout)
    \/ \E k \in Attempts : worker[k] \in {"handshake", "write", "read"} /\ Broken(k)

(* 100ms pass; the context is done when its deadline is reached. *)
Tick ==
    /\ qpc # "off"
    /\ now < MaxTime
    /\ ~Urgent
    /\ now' = now + 1
    /\ ctx' = IF ctx = "live" /\ deadline = now + 1 THEN "deadline" ELSE ctx
    /\ UNCHANGED <<queryVars, qcfg, deadline, qpc, qi, qlastErr, started, conn, connDeadline,
                   worker, tchan, lastExchange, qret>>

NextTimed ==
    \/ StartAttempt
    \/ DirectReturns
    \/ DialReturns
    \/ \E k \in Attempts : WorkerStep(k)
    \/ SelectResult
    \/ ExchangeCancelled
    \/ TimerFires
    \/ BackoffAborted
    \/ Tick
    \/ Cancel

SpecTimed == InitTimed /\ [][NextTimed]_vars

----------------------------------------------------------------------------
(* The construction of a client: New, NewDefault and the options.           *)

MaxOpts == 3         \* options given to New

(* The first entries of DoTServers and DoHServers; ServerPool stands for    *)
(* UDPServers.                                                              *)
DoTServers == <<"223.5.5.5:853", "223.6.6.6:853">>
DoHServers == <<"https://dns.alidns.com/dns-query", "https://doh.pub/dns-query">>

Fields == {"Timeout", "Retries", "Protocol", "Servers", "ProxyType", "ProxyAddr", "ProxyAuth",
           "TLSConfig", "HTTPClient"}

(* A Config value: the fields a composite literal does not name are zero.   *)
(* Timeout is in seconds.                                                   *)
ConfigLiteral(timeout, retries, protocol, servers, proxyType) ==
    [Timeout |-> timeout, Retries |-> retries, Protocol |-> protocol, Servers |-> servers,
     ProxyType |-> proxyType, ProxyAddr |-> "", ProxyAuth |-> NilPtr, TLSConfig |-> NilPtr,
     HTTPClient |-> NilPtr]

(* NewDefault, lines 95-105. *)
NewDefault == Ptr(ConfigLiteral(5, 3, UDP, ServerPool, NoProxy))

(* The options, each with the fields its closure assigns (lines 126-184).   *)
WithTimeout(timeout) == [name |-> "WithTimeout", writes |-> [Timeout |-> timeout]]
WithRetries(retries) == [name |-> "WithRetries", writes |-> [Retries |-> retries]]
(* Variant: WithProtocol leaves the server list alone. *)
WithProtocol_KeepServers(protocol) ==
    [name |-> "WithProtocol", writes |-> [Protocol |-> protocol]]

WithProtocol(protocol) ==
    [name |-> "WithProtocol",
     writes |-> [Protocol |-> protocol,
                 Servers |-> CASE protocol = DoH -> DoHServers
                               [] protocol = DoT -> DoTServers
                               [] OTHER -> ServerPool]]
WithServers(servers) == [name |-> "WithServers", writes |-> [Servers |-> servers]]
WithSOCKS5Proxy(addr, auth) ==
    [name |-> "WithSOCKS5Proxy",
     writes |-> [ProxyType |-> SOCKS5, ProxyAddr |-> addr, ProxyAuth |-> auth]]
WithHTTPProxy(addr, auth) ==
    [name |-> "WithHTTPProxy",
     writes |-> [ProxyType |-> HTTPProxy, ProxyAddr |-> addr, ProxyAuth |-> auth]]
WithTLSConfig(tlsConfig) == [name |-> "WithTLSConfig", writes |-> [TLSConfig |-> tlsConfig]]
WithHTTPClient(httpClient) == [name |-> "WithHTTPClient", writes |-> [HTTPClient |-> httpClient]]

(* The options tried. *)
Options ==
    { WithTimeout(2), WithTimeout(10), WithRetries(0), WithRetries(1),
      WithProtocol(TCP), WithProtocol(DoT), WithProtocol(DoH),
      WithServers(<<"9.9.9.9:53">>), WithServers(<< >>),
      WithSOCKS5Proxy("127.0.0.1:1080", NilPtr),
      WithHTTPProxy("proxy.local:8080", Ptr([Username |-> "u", Password |-> "p"])),
      WithTLSConfig(Ptr("tls")),
      WithHTTPClient(Ptr([Proxy |-> NilPtr])) }

(* Variant: an option does not overwrite a field that is no longer zero or  *)
(* at its initial value.                                                    *)
ApplyOption_KeepFirst(c, opt) ==
    [f \in DOMAIN c |-> IF f \in DOMAIN opt.writes /\ c[f] = NewDefault[1][f]
                         THEN opt.writes[f] ELSE c[f]]

(* opt(config), line 119: the closure assigns its fields. *)
ApplyOption(c, opt) ==
    [f \in DOMAIN c |-> IF f \in DOMAIN opt.writes THEN opt.writes[f] ELSE c[f]]

InitNew ==
    /\ QueryOff /\ ctx = "live"
    /\ TimedOff
    /\ DoTOff
    /\ TunnelOff
    /\ opts \in SeqsUpTo(Options, MaxOpts)
    /\ config = NilPtr
    /\ optk = 0
    /\ client = NilPtr

notNewVars == <<cfg, call, ctx, crashed, mainVars, taskVars, timedVars, dotVars, tunnelVars>>

(* New, lines 110-116: the initial Config. *)
NewConfig ==
    /\ config = NilPtr /\ client = NilPtr
    /\ config' = Ptr(ConfigLiteral(5, 3, UDP, ServerPool, NoProxy))
    /\ UNCHANGED <<opts, optk, client, notNewVars>>

(* New, lines 118-120: one iteration of the loop over opts. *)
ApplyNext ==
    /\ config # NilPtr /\ client = NilPtr
    /\ optk < Len(opts)
    /\ config' = Ptr(ApplyOption(config[1], opts[optk + 1]))
    /\ optk' = optk + 1
    /\ UNCHANGED <<opts, client, notNewVars>>

(* New, line 122. *)
NewReturns ==
    /\ config # NilPtr /\ client = NilPtr
    /\ optk = Len(opts)
    /\ client' = config
    /\ UNCHANGED <<opts, config, optk, notNewVars>>

NextNew ==
    \/ NewConfig
    \/ ApplyNext
    \/ NewReturns

SpecNew == InitNew /\ [][NextNew]_vars

----------------------------------------------------------------------------
(* queryDoT: the target of the exchanges.  An address is the sequence of    *)
(* its characters.                                                          *)

DefaultDoTPort == <<":", "8", "5", "3">>

(* strings.Contains(s, ch) for a one-character ch. *)
Contains(s, ch) == \E k \in 1..Len(s) : s[k] = ch

(* Lines 372-374. *)
NormalizeDoT(server) ==
    IF ~Contains(server, ":") THEN server \o DefaultDoTPort ELSE server

(* The server addresses tried: "9.9.9.9", "9.9.9.9:853", "1.1.1.1:53",      *)
(* "dns.sb", "dns.sb:853", "::1", "[::1]", "[::1]:853".                     *)
DoTInputs ==
    { <<"9", ".", "9", ".", "9", ".", "9">>,
      <<"9", ".", "9", ".", "9", ".", "9", ":", "8", "5", "3">>,
      <<"1", ".", "1", ".", "1", ".", "1", ":", "5", "3">>,
      <<"d", "n", "s", ".", "s", "b">>,
      <<"d", "n", "s", ".", "s", "b", ":", "8", "5", "3">>,
      <<":", ":", "1">>,
      <<"[", ":", ":", "1", "]">>,
      <<"[", ":", ":", "1", "]", ":", "8", "5", "3">> }

InitDoT ==
    /\ QueryOff /\ ctx = "live"
    /\ TimedOff
    /\ NewOff
    /\ TunnelOff
    /\ dotServer \in DoTInputs
    /\ dotTarget = dotServer
    /\ dotRetries \in 0..(MaxAttempts - 1)
    /\ dotPc = "entry"
    /\ dotI = 0
    /\ dotDialed = << >>

notDoTVars == <<cfg, call, ctx, crashed, mainVars, taskVars, timedVars, newVars, tunnelVars>>

(* Lines 360-374: the set-up of queryDoT, before the loop. *)
DoTSetUp ==
    /\ dotPc = "entry"
    /\ dotTarget' = NormalizeDoT(dotTarget)
    /\ dotPc' = "loop"
    /\ UNCHANGED <<dotServer, dotRetries, dotI, dotDialed, notDoTVars>>

(* One attempt (377-381) on the target, and what the loop does after it. *)
DoTExchange ==
    /\ dotPc = "loop"
    /\ dotDialed' = Append(dotDialed, dotTarget)
    /\ \E o \in { Ok(<< >>), Fail("transport", ErrTimeout) } :
          dotPc' = IF AfterAttempt(dotI, dotRetries, o, Nil).next = "return"
                   THEN "returned" ELSE "backoff"
    /\ UNCHANGED <<dotServer, dotTarget, dotRetries, dotI, notDoTVars>>

(* The backoff wait is over. *)
DoTBackoff ==
    /\ dotPc = "backoff"
    /\ dotI' = dotI + 1
    /\ dotPc' = "loop"
    /\ UNCHANGED <<dotServer, dotTarget, dotRetries, dotDialed, notDoTVars>>

NextDoT ==
    \/ DoTSetUp
    \/ DoTExchange
    \/ DoTBackoff

SpecDoT == InitDoT /\ [][NextDoT]_vars

----------------------------------------------------------------------------
(* Concurrent tunneled queries: queryUDPTCP through a SOCKS5 proxy for each *)
(* of the servers of a fan-out, with one context.  Every call of            *)
(* exchangeWithProxy has its own conn, resultChan and goroutine.            *)

InitTunnel ==
    /\ QueryOff
    /\ TimedOff
    /\ NewOff
    /\ DoTOff
    /\ xretries \in 0..(MaxAttempts - 1)
    /\ xpc = [q \in Queries |-> "loop"]
    /\ xi = [q \in Queries |-> 0]
    /\ xlastErr = [q \in Queries |-> Nil]
    /\ xconn = [q \in Queries |-> [k \in Attempts |-> "none"]]
    /\ xworker = [q \in Queries |-> [k \in Attempts |-> "none"]]
    /\ xchan = [q \in Queries |-> [k \in Attempts |-> << >>]]
    /\ xgot = [q \in Queries |-> << >>]
    /\ xret = [q \in Queries |-> NoOutcome]

notTunnelVars == <<cfg, call, crashed, mainVars, taskVars, timedVars, newVars, dotVars>>

(* The call of exchangeWithProxy in progress in query q. *)
xcur(q) == xi[q] + 1

(* The exchange of query q returned (response, err): the rest of the        *)
(* iteration up to the return or the select of the backoff.                 *)
XAfterExchange(q, response, err) ==
    LET o == [kind |-> IF err = Nil THEN "ok" ELSE "transport",
              response |-> response, err |-> err]
        s == AfterAttempt(xi[q], xretries, o, xlastErr[q])
    IN /\ xlastErr' = [xlastErr EXCEPT ![q] = s.lastErr]
       /\ xi' = xi
       /\ IF s.next = "return"
          THEN /\ xpc' = [xpc EXCEPT ![q] = "returned"]
               /\ xret' = [xret EXCEPT ![q] = [response |-> s.response, err |-> s.err]]
          ELSE /\ xpc' = [xpc EXCEPT ![q] = "backoff"]
               /\ xret' = xret

(* The head of an iteration and proxyDialer.Dial (461-477): on success the  *)
(* call has its conn, makes its resultChan and starts its goroutine         *)
(* (485-487).                                                               *)
XDial(q) ==
    /\ xpc[q] = "loop" /\ xi[q] <= xretries
    /\ \/ /\ XAfterExchange(q, NilPtr, ErrProxyDial)
          /\ UNCHANGED <<xconn, xworker>>
       \/ /\ xconn' = [xconn EXCEPT ![q][xcur(q)] = "open"]
          /\ xworker' = [xworker EXCEPT ![q][xcur(q)] = "run"]
          /\ xpc' = [xpc EXCEPT ![q] = "select"]
          /\ UNCHANGED <<xi, xlastErr, xret>>
    /\ UNCHANGED <<ctx, notTunnelVars, xretries, xchan, xgot>>

(* The goroutine of call k of query q (487-504) ends: it sends the answer   *)
(* it read from its conn, or the error of its write or read, on the         *)
(* resultChan of its call.  from names the sender (history).                *)
XWorker(q, k) ==
    /\ xworker[q][k] = "run"
    /\ Len(xchan[q][k]) < 1
    /\ \E v \in { [response |-> NilPtr, err |-> e] : e \in {ErrWrite, ErrRead} }
               \cup (IF xconn[q][k] = "open"
                     THEN { [response |-> Ptr([Answer |-> a]), err |-> Nil] :
                               a \in TimedAnswers }
                     ELSE {}) :
          xchan' = [xchan EXCEPT ![q][k] =
                       Append(@, [response |-> v.response, err |-> v.err, from |-> <<q, k>>])]
    /\ xworker' = [xworker EXCEPT ![q][k] = "done"]
    /\ UNCHANGED <<ctx, notTunnelVars, xretries, xpc, xi, xlastErr, xconn, xgot, xret>>

(* Variant: one result channel is shared by all calls: the select receives  *)
(* whatever value any goroutine has sent.                                   *)
XSelectResult_SharedChannel(q) ==
    /\ xpc[q] = "select"
    /\ \E q2 \in Queries, k2 \in Attempts :
          /\ xchan[q2][k2] # << >>
          /\ LET v == Head(xchan[q2][k2])
             IN /\ xchan' = [xchan EXCEPT ![q2][k2] = Tail(@)]
                /\ xgot' = [xgot EXCEPT ![q] = Append(@, [attempt |-> xcur(q), from |-> v.from,
                                                         response |-> v.response,
                                                         err |-> v.err])]
                /\ XAfterExchange(q, v.response, v.err)
    /\ xconn' = [xconn EXCEPT ![q][xcur(q)] = "closed"]
    /\ UNCHANGED <<ctx, notTunnelVars, xretries, xworker>>

(* The select of the call in progress (507-509) receives from the           *)
(* resultChan of that call; the deferred conn.Close() closes its conn.      *)
XSelectResult(q) ==
    /\ xpc[q] = "select"
    /\ xchan[q][xcur(q)] # << >>
    /\ LET v == Head(xchan[q][xcur(q)])
       IN /\ xchan' = [xchan EXCEPT ![q][xcur(q)] = Tail(@)]
          /\ xgot' = [xgot EXCEPT ![q] = Append(@, [attempt |-> xcur(q), from |-> v.from,
                                                   response |-> v.response, err |-> v.err])]
          /\ XAfterExchange(q, v.response, v.err)
    /\ xconn' = [xconn EXCEPT ![q][xcur(q)] = "closed"]
    /\ UNCHANGED <<ctx, notTunnelVars, xretries, xworker>>

(* The select takes ctx.Done() (510-511): the call returns ctx.Err(),       *)
(* closes its conn and leaves its goroutine and its resultChan behind.      *)
XCancelled(q) ==
    /\ xpc[q] = "select"
    /\ ctx # "live"
    /\ xconn' = [xconn EXCEPT ![q][xcur(q)] = "closed"]
    /\ XAfterExchange(q, NilPtr, CtxErr(ctx))
    /\ UNCHANGED <<ctx, notTunnelVars, xretries, xworker, xchan, xgot>>

(* The select of the backoff: the timer. *)
XBackoffElapsed(q) ==
    /\ xpc[q] = "backoff"
    /\ ctx = "live"
    /\ xi' = [xi EXCEPT ![q] = @ + 1]
    /\ xpc' = [xpc EXCEPT ![q] = "loop"]
    /\ UNCHANGED <<ctx, notTunnelVars, xretries, xlastErr, xconn, xworker, xchan, xgot, xret>>

(* The select of the backoff: ctx.Done(). *)
XBackoffAborted(q) ==
    /\ xpc[q] = "backoff"
    /\ ctx # "live"
    /\ xpc' = [xpc EXCEPT ![q] = "returned"]
    /\ xret' = [xret EXCEPT ![q] = [response |-> NilPtr, err |-> CtxErr(ctx)]]
    /\ UNCHANGED <<ctx, notTunnelVars, xretries, xi, xlastErr, xconn, xworker, xchan, xgot>>

NextTunnel ==
    \/ \E q \in Queries : XDial(q)
    \/ \E q \in Queries, k \in Attempts : XWorker(q, k)
    \/ \E q \in Queries : XSelectResult(q)
    \/ \E q \in Queries : XCancelled(q)
    \/ \E q \in Queries : XBackoffElapsed(q)
    \/ \E q \in Queries : XBackoffAborted(q)
    \/ Cancel

SpecTunnel == InitTunnel /\ [][NextTunnel]_vars

----------------------------------------------------------------------------
(* Properties *)

MultiQueryDone == call.op = "MultiQuery" /\ mpc = "done" /\ Len(cfg.Servers) >= 1
Returned == topRet.res[1]
Failed(results) == { k \in 1..Len(results) : results[k].Error # Nil }

(* C1: a MultiQuery over N >= 1 servers returns a result whose Results has  *)
(* exactly N entries, whatever the per-server successes and failures.       *)
C1_ResultCount ==
    MultiQueryDone =>
        /\ topRet.res # NilPtr
        /\ Len(Returned.Results) = Len(cfg.Servers)

C1_Witness ==
    /\ MultiQueryDone /\ Len(cfg.Servers) = 3
    /\ Cardinality(Failed(Returned.Results)) = 2

C3_Dedup ==
    (MultiQueryDone /\ IsAddressQuery(call.qtype)) =>
        LET ips == Returned.AllIPs
            rs == Returned.Results
        IN /\ \A p, q \in 1..Len(ips) : ips[p] = ips[q] => p = q
           /\ \A p \in 1..Len(ips) :
                \E k \in 1..Len(rs) :
                    /\ rs[k].Error = Nil
                    /\ \E j \in 1..Len(rs[k].Records) : rs[k].Records[j].Value = ips[p]

(* Two servers answer the same address and the third fails. *)
C3_Witness ==
    /\ MultiQueryDone /\ call.qtype = TypeA /\ Len(cfg.Servers) = 3
    /\ \A k \in 1..3 :
          LET r == Returned.Results[k]
          IN IF r.Server = cfg.Servers[3]
             THEN r.Error # Nil
             ELSE /\ r.Error = Nil /\ Len(r.Records) = 1
                  /\ r.Records[1].Value = "93.184.216.34"
    /\ Returned.AllIPs = <<"93.184.216.34">>

(* The values of the records received from the channel, in order. *)
RECURSIVE DrainedValues(_, _)
DrainedValues(d, k) ==
    IF k = 0 THEN << >>
    ELSE DrainedValues(d, k - 1) \o [j \in 1..Len(d[k].Records) |-> d[k].Records[j].Value]

FirstIndex(v, flat) ==
    IF \E j \in 1..Len(flat) : flat[j] = v
    THEN CHOOSE j \in 1..Len(flat) : flat[j] = v /\ \A h \in 1..(j - 1) : flat[h] # v
    ELSE 0

(* C4: in a MultiQuery for A or AAAA, an address a is before an address b   *)
(* in AllIPs exactly when the first record carrying a was received from the *)
(* channel before the first record carrying b.                              *)
C4_FirstSeenOrder ==
    (call.op = "MultiQuery" /\ IsAddressQuery(call.qtype)) =>
        LET flat == DrainedValues(drained, Len(drained))
        IN \A p, q \in 1..Len(result.AllIPs) :
              p < q <=> FirstIndex(result.AllIPs[p], flat) < FirstIndex(result.AllIPs[q], flat)

C4_Witness ==
    /\ MultiQueryDone /\ IsAddressQuery(call.qtype)
    /\ sent[1] = 2
    /\ Returned.AllIPs = <<"2001:db8::1", "93.184.216.34">>
    /\ Len(drained[1].Records) = 1

(* C5: with an empty server list Query and MultiQuery return the            *)
(* configuration error and no result; no task is launched and no exchange   *)
(* is attempted.                                                            *)
C5_NoServers ==
    Len(cfg.Servers) = 0 =>
        /\ launched = 0 /\ resultChan = << >>
        /\ \A i \in Tasks : pc[i] = "idle" /\ attempts[i] = 0
        /\ mpc \in {"call", "done"}
        /\ mpc = "done" => topRet = [res |-> NilPtr, err |-> ErrNoServers]

C5_Witness ==
    /\ Len(cfg.Servers) = 0 /\ call.op = "MultiQuery" /\ mpc = "done"
    /\ topRet.err = ErrNoServers

(* C6: with a non-empty server list MultiQuery returns no top-level error;  *)
(* a failed server does not shorten the fan-out, and when every server      *)
(* fails the caller gets N results with an error each and an empty AllIPs.  *)
C6_NoTopLevelError ==
    (call.op = "MultiQuery" /\ Len(cfg.Servers) >= 1) =>
        /\ topRet.err = Nil
        /\ mpc = "done" =>
             /\ topRet.res # NilPtr
             /\ collecti = Len(cfg.Servers)
             /\ Len(Returned.Results) = Len(cfg.Servers)
             /\ Cardinality(Failed(Returned.Results)) = Len(cfg.Servers)
                   => Returned.AllIPs = << >>

C6_Witness ==
    /\ MultiQueryDone /\ Len(cfg.Servers) = 3
    /\ Cardinality(Failed(Returned.Results)) = 3
    /\ Returned.AllIPs = << >>
    /\ topRet.err = Nil

(* C7: with retry count R >= 0 and a context that stays live, a query whose *)
(* every exchange fails makes exactly R+1 exchanges and returns the error   *)
(* of the last one.                                                         *)
C7_RetryBound ==
    \A i \in Tasks :
        (pc[i] = "done" /\ ctx = "live" /\ cfg.Retries >= 0
           /\ attempts[i] >= 1 /\ ret[i].err # Nil) =>
            /\ attempts[i] = cfg.Retries + 1
            /\ lastAttempt[i].kind # "ok"
            /\ ret[i].err = lastAttempt[i].err
            /\ ret[i].res # NilPtr /\ ret[i].res[1].Error = lastAttempt[i].err

C7_Witness ==
    /\ pc[1] = "done" /\ ctx = "live" /\ cfg.Retries = 2 /\ cfg.Protocol = UDP
    /\ attempts[1] = 3
    /\ ret[1].err = ErrRefused

(* C8 as stated: the k-th retry is preceded by a wait of exactly 100ms x k, *)
(* there is a wait between any two attempts and none after the last.        *)
C8_BackoffSchedule ==
    \A i \in Tasks :
        /\ waits[i] = [k \in 1..Len(waits[i]) |-> BackoffUnitMs * k]
        /\ Len(waits[i]) = (IF pc[i] = "attempt" THEN attempts[i]
                            ELSE IF attempts[i] = 0 THEN 0 ELSE attempts[i] - 1)

(* C9: when the context is done while a task is in the backoff wait, the    *)
(* task's next step returns the context's error; the wait is not completed  *)
(* and no further exchange is started.                                      *)
C9_CancelInBackoff ==
    [][\A i \in Tasks :
          (pc[i] = "backoff" /\ ctx # "live" /\ pc'[i] # pc[i]) =>
              /\ pc'[i] = "done"
              /\ ret'[i].err = CtxErr(ctx)
              /\ ret'[i].res # NilPtr /\ ret'[i].res[1].Error = CtxErr(ctx)
              /\ attempts'[i] = attempts[i]
              /\ waits'[i] = waits[i]]_vars

C9_Witness ==
    /\ cfg.Protocol = UDP /\ cfg.ProxyType = NoProxy /\ cfg.Retries = 2
    /\ pc[1] = "done" /\ ret[1].err = ErrCanceled
    /\ lastAttempt[1].err = ErrTimeout
    /\ attempts[1] = 2 /\ Len(waits[1]) = 1

(* C10: a successful exchange ends the retry loop at once with that         *)
(* exchange's answer: no further exchange and no backoff wait follow it.    *)
C10_SuccessReturns ==
    \A i \in Tasks :
        lastAttempt[i].kind = "ok" =>
            /\ pc[i] = "done"
            /\ ret[i].err = Nil
            /\ ret[i].res # NilPtr
            /\ ret[i].res[1].Error = Nil
            /\ ret[i].res[1].Records = MapAnswer(lastAttempt[i].response[1].Answer)
            /\ Len(waits[i]) <= attempts[i] - 1

C10_Witness ==
    /\ cfg.Retries = 2 /\ lastAttempt[1].kind = "ok" /\ attempts[1] = 2
    /\ pc[1] = "done" /\ Len(ret[1].res[1].Records) = 2

----------------------------------------------------------------------------
(* Properties: transports, proxies and configuration errors *)

(* C11 as stated: with UDP, TCP or DoT and an HTTP proxy the single-server  *)
(* query fails with the unsupported-proxy-type error after one attempt:     *)
(* no second attempt and no backoff wait, for every retry count.            *)
C11_ConfigErrorNotRetried ==
    \A i \in Tasks :
        (cfg.Protocol \in {UDP, TCP, DoT} /\ cfg.ProxyType = HTTPProxy) =>
            /\ attempts[i] <= 1
            /\ waits[i] = << >>
            /\ pc[i] \notin {"backoff", "attempt"}
            /\ pc[i] = "done" => ret[i].err = ErrDialer


(* The routing table of C12 for the latest exchange of task i, and for the  *)
(* proxy types no code path knows.                                          *)
RoutingAsStated(i) ==
    LET o == lastAttempt[i]
        known == cfg.ProxyType \in {NoProxy, SOCKS5, HTTPProxy}
    IN /\ o.kind # "none" =>
            CASE cfg.ProxyType = NoProxy -> o.via = "direct"
              [] cfg.ProxyType = SOCKS5 -> o.via = "proxy"
              [] cfg.ProxyType = HTTPProxy /\ cfg.Protocol = DoH -> o.via = "proxy"
              [] OTHER -> o.via = "none" /\ o.err = ErrDialer
       /\ (~known /\ cfg.Protocol = DoH) =>
             /\ attempts[i] = 0
             /\ pc[i] = "done" => ret[i].err = ErrProxyURL
       /\ cfg.ProxyType # NoProxy => o.via # "direct"

(* C12 as stated: for every protocol and proxy type, no proxy is direct,    *)
(* SOCKS5 goes through the proxy, an HTTP proxy goes through the proxy for  *)
(* DoH and is an unsupported-proxy-type error otherwise, any other proxy    *)
(* type is an unsupported-proxy-type error; never a direct connection when  *)
(* a proxy type is configured.                                              *)
C12_ProxyRouting ==
    \A i \in Tasks : cfg.Protocol \in {UDP, TCP, DoT, DoH} => RoutingAsStated(i)

(* C12 amended: the routing table holds whenever the strategy builds its    *)
(* own connection.  With DoH and an HTTP client supplied in the             *)
(* configuration the proxy settings are not read: every exchange goes the   *)
(* way of the supplied client, and no proxy type is rejected.               *)
C12_ProxyRoutingUnlessClientSupplied ==
    \A i \in Tasks :
        cfg.Protocol \in {UDP, TCP, DoT, DoH} =>
            IF cfg.Protocol = DoH /\ cfg.HTTPClient # NilPtr
            THEN /\ lastAttempt[i].kind # "none" =>
                      lastAttempt[i].via = DoHRoute(NoProxy, cfg.HTTPClient)
                 /\ ret[i].err # ErrProxyURL
            ELSE RoutingAsStated(i)

C12_Witness ==
    /\ cfg.Protocol = DoT /\ cfg.ProxyType = HTTPProxy /\ cfg.Retries = 0
    /\ pc[1] = "done" /\ attempts[1] = 1
    /\ lastAttempt[1].via = "none"
    /\ ret[1].err = ErrDialer


(* C14: MultiQuery returns only after it has received one result from each  *)
(* of the N queries it launched: every task has finished and sent, the      *)
(* loop has received N values, the k-th of them from the k-th sender; this  *)
(* also with a context that is done before or during the call.              *)
C14_NoEarlyExit ==
    MultiQueryDone =>
        LET n == Len(cfg.Servers)
        IN /\ launched = n /\ collecti = n
           /\ Len(drained) = n /\ Len(sent) = n /\ resultChan = << >>
           /\ { sent[k] : k \in 1..n } = 1..n
           /\ \A i \in 1..n : pc[i] = "done"
           /\ \A k \in 1..n :
                 drained[k] = Substitute(call.domain, call.qtype, cfg.Servers[sent[k]],
                                         ret[sent[k]])

(* Two servers, the context cancelled: both queries end in the backoff. *)
C14_Witness ==
    /\ MultiQueryDone /\ Len(cfg.Servers) = 2 /\ ctx = "canceled"
    /\ collecti = 2
    /\ \A k \in 1..2 : Returned.Results[k].Error = ErrCanceled

(* A QueryResult with an error carries the call's domain and type, the      *)
(* server, and no Records.                                                  *)
FailedResultShape(r, server) ==
    r.Error # Nil =>
        /\ r.Domain = call.domain /\ r.Type = call.qtype
        /\ r.Server = server
        /\ r.Records = << >>

(* C15: MultiQuery starts one query per configured server, all of them      *)
(* before it receives any result; a query that has ended has sent exactly   *)
(* one QueryResult, a query that has not has sent none; the result sent for *)
(* a failed query carries domain, type, server and the error and has no     *)
(* Records, as does every QueryResult with an error that Query returns.     *)
C15_OneResultPerQuery ==
    LET n == Len(cfg.Servers)
        delivered == drained \o resultChan
    IN /\ call.op = "MultiQuery" =>
            /\ launched <= n
            /\ \A i \in Tasks : (pc[i] # "idle") <=> (i <= launched)
            /\ collecti > 0 => launched = n
            /\ \A i \in Tasks :
                  Cardinality({ k \in 1..Len(sent) : sent[k] = i })
                     = (IF pc[i] = "done" THEN 1 ELSE 0)
            /\ Len(delivered) = Len(sent)
            /\ \A k \in 1..Len(sent) :
                  /\ delivered[k].Error = ret[sent[k]].err
                  /\ delivered[k].Server = cfg.Servers[sent[k]]
                  /\ FailedResultShape(delivered[k], cfg.Servers[sent[k]])
            /\ mpc = "done" /\ n >= 1 =>
                  \A k \in 1..n :
                     \E j \in 1..n : FailedResultShape(Returned.Results[k], cfg.Servers[j])
       /\ (call.op = "Query" /\ mpc = "done" /\ topRet.res # NilPtr) =>
            /\ topRet.res[1].Error = topRet.err
            /\ FailedResultShape(topRet.res[1], cfg.Servers[1])

(* Of three queries the first to end has failed and its result is in the    *)
(* channel, while no result has been received yet.                          *)
C15_Witness ==
    /\ call.op = "MultiQuery" /\ Len(cfg.Servers) = 3 /\ launched = 3 /\ collecti = 0
    /\ pc[2] = "done" /\ pc[1] # "done" /\ pc[3] # "done"
    /\ Len(resultChan) = 1
    /\ resultChan[1].Error = ErrRefused /\ resultChan[1].Server = cfg.Servers[2]

(* The values of the records of the successful entries of results that      *)
(* parse as addresses.                                                      *)
AddressValues(results) ==
    { results[k].Records[j].Value :
         <<k, j>> \in { kj \in (1..Len(results)) \X (1..MaxRecords) :
                           /\ results[kj[1]].Error = Nil
                           /\ kj[2] <= Len(results[kj[1]].Records)
                           /\ ParseIP(results[kj[1]].Records[kj[2]].Value) # NilPtr } }

(* C30: after a MultiQuery for A or AAAA the entries of AllIPs, as a set,   *)
(* are exactly the record values of the successful entries of Results that  *)
(* parse as addresses, in whatever order the results arrived.               *)
C30_AllIPsComplete ==
    (MultiQueryDone /\ call.qtype \in {TypeA, TypeAAAA}) =>
        { Returned.AllIPs[p] : p \in 1..Len(Returned.AllIPs) }
            = AddressValues(Returned.Results)

(* One server answers two addresses, the other fails. *)
C30_Witness ==
    /\ MultiQueryDone /\ call.qtype = TypeAAAA /\ Len(cfg.Servers) = 2
    /\ Returned.Results[1].Error # Nil
    /\ Returned.Results[2].Error = Nil
    /\ Len(Returned.Results[2].Records) = 2
    /\ Returned.AllIPs = <<"93.184.216.34", "2001:db8::1">>

(* C16: in a MultiQuery whose type is neither A nor AAAA, AllIPs stays      *)
(* empty up to and on return, also when records of successful results       *)
(* carry values that parse as addresses.                                    *)
C16_NoIPsForOtherTypes ==
    (call.op = "MultiQuery" /\ call.qtype \notin {TypeA, TypeAAAA}) =>
        /\ result.AllIPs = << >>
        /\ ipSet = {}
        /\ mpc = "done" /\ topRet.res # NilPtr => Returned.AllIPs = << >>

(* A TXT query answered with an A record. *)
C16_Witness ==
    /\ MultiQueryDone /\ call.qtype = TypeTXT
    /\ \E k \in 1..Len(Returned.Results) :
          /\ Returned.Results[k].Error = Nil
          /\ Len(Returned.Results[k].Records) >= 1
          /\ ParseIP(Returned.Results[k].Records[1].Value) # NilPtr
    /\ Returned.AllIPs = << >>

(* C18: with a protocol that is none of UDP, TCP, DoT, DoH a single-server  *)
(* query returns the unsupported-protocol error and no result, with no      *)
(* exchange and no backoff wait; Query returns that error; MultiQuery       *)
(* returns no top-level error and N results that each carry it.             *)
C18_UnsupportedProtocol ==
    cfg.Protocol \notin {UDP, TCP, DoT, DoH} =>
        /\ \A i \in Tasks :
              /\ attempts[i] = 0 /\ waits[i] = << >>
              /\ pc[i] \in {"idle", "start", "done"}
              /\ pc[i] = "done" =>
                    ret[i] = [res |-> NilPtr, err |-> ErrUnsupportedProtocol, panic |-> FALSE]
        /\ (call.op = "Query" /\ mpc = "done" /\ Len(cfg.Servers) >= 1) =>
              topRet = [res |-> NilPtr, err |-> ErrUnsupportedProtocol]
        /\ MultiQueryDone =>
              /\ topRet.err = Nil
              /\ Len(Returned.Results) = Len(cfg.Servers)
              /\ \A k \in 1..Len(cfg.Servers) :
                    /\ Returned.Results[k].Error = ErrUnsupportedProtocol
                    /\ Returned.Results[k].Records = << >>

C18_Witness ==
    /\ cfg.Protocol = "quic" /\ MultiQueryDone /\ Len(cfg.Servers) = 3
    /\ \A i \in 1..3 : attempts[i] = 0
    /\ \A k \in 1..3 : Returned.Results[k].Error = ErrUnsupportedProtocol
    /\ topRet.err = Nil

----------------------------------------------------------------------------
(* Properties of the timed single-server query (SpecTimed) *)

(* C13 as stated: in a tunneled exchange, when the context is done while    *)
(* the exchange is blocked in one of its steps (the dial through the proxy, *)
(* or the TLS handshake, the write and the read, during which the caller    *)
(* is in the select), the exchange can return the context's error at once,  *)
(* without the step finishing.                                              *)
C13_CancelObservableAtEveryStep ==
    (qpc \in {"dial", "select"} /\ ctx # "live") => ENABLED ExchangeCancelled

(* C17 as stated: once the caller's deadline has passed the single-server   *)
(* query has returned, and it returned no later than the deadline.          *)
C17_DeadlineBoundsQuery ==
    (qpc # "off" /\ deadline # NoDeadline /\ now > deadline) =>
        /\ qpc = "returned"
        /\ qret.at <= deadline


----------------------------------------------------------------------------
(* Properties of the construction of a client (SpecNew) *)

(* The positions among the first n options that write field f. *)
Writers(f, n) == { k \in 1..n : f \in DOMAIN opts[k].writes }

Latest(S) == CHOOSE k \in S : \A j \in S : j <= k

(* The defaults the documentation gives: timeout 5s, retries 3, protocol    *)
(* UDP, no proxy.                                                           *)
StatedDefaults ==
    [Timeout |-> 5, Retries |-> 3, Protocol |-> UDP, ProxyType |-> NoProxy]

(* C19: New applies its options in argument order.  After New, and after    *)
(* each iteration of its loop, every field has the value written by the     *)
(* last option applied that writes it; a field no option writes has the     *)
(* value NewDefault gives it, which for timeout, retries, protocol and      *)
(* proxy type is 5s, 3, UDP and none.  New with no options returns the      *)
(* configuration of NewDefault.                                             *)
C19_LastOptionWins ==
    /\ config # NilPtr =>
          \A f \in Fields :
             LET w == Writers(f, optk)
             IN IF w = {}
                THEN /\ config[1][f] = NewDefault[1][f]
                     /\ f \in DOMAIN StatedDefaults => config[1][f] = StatedDefaults[f]
                ELSE config[1][f] = opts[Latest(w)].writes[f]
    /\ client # NilPtr =>
          /\ optk = Len(opts)
          /\ client = config
          /\ opts = << >> => client = NewDefault

(* WithServers, then WithProtocol(DoT), then WithRetries: the servers are   *)
(* those WithProtocol wrote, the timeout is the default.                    *)
C19_Witness ==
    /\ client # NilPtr
    /\ opts = <<WithServers(<<"9.9.9.9:53">>), WithProtocol(DoT), WithRetries(0)>>
    /\ client[1].Servers = DoTServers
    /\ client[1].Protocol = DoT
    /\ client[1].Retries = 0
    /\ client[1].Timeout = 5


(* The default server list the documentation gives for a protocol. *)
StatedServers(p) ==
    CASE p = DoH -> DoHServers
      [] p = DoT -> DoTServers
      [] OTHER -> ServerPool

(* The positions of the options of New with the given name. *)
Named(n) == { k \in 1..Len(opts) : opts[k].name = n }

(* C29: after New, when WithProtocol was among the options, the servers are *)
(* the default list of the last WithProtocol's protocol unless a            *)
(* WithServers comes after it, whose list is then kept; a WithServers       *)
(* before the last WithProtocol has no effect.  For one WithServers and one *)
(* WithProtocol the two orders give different server lists.                 *)
C29_WithProtocolReplacesServers ==
    client # NilPtr =>
        LET wp == Named("WithProtocol")
            ws == Named("WithServers")
        IN /\ wp # {} =>
                 /\ client[1].Protocol = opts[Latest(wp)].writes.Protocol
                 /\ client[1].Servers =
                       IF \E j \in ws : j > Latest(wp)
                       THEN opts[Latest(ws)].writes.Servers
                       ELSE StatedServers(opts[Latest(wp)].writes.Protocol)
           /\ (Len(opts) = 2 /\ wp # {} /\ ws # {}) =>
                 client[1].Servers
                    # ApplyOption(ApplyOption(NewDefault[1], opts[2]), opts[1]).Servers

(* WithServers before WithProtocol(DoH): the list given is discarded. *)
C29_Witness ==
    /\ client # NilPtr
    /\ opts = <<WithServers(<<"9.9.9.9:53">>), WithProtocol(DoH)>>
    /\ client[1].Servers = DoHServers
    /\ ApplyOption(ApplyOption(NewDefault[1], opts[2]), opts[1]).Servers = <<"9.9.9.9:53">>


----------------------------------------------------------------------------
(* Properties of queryDoT (SpecDoT) *)

Digits == {"0", "1", "2", "3", "4", "5", "6", "7", "8", "9"}

(* The address carries a port: it ends in a colon and digits, and what is   *)
(* before that colon is a host: a name or IPv4 address without a colon, or  *)
(* an IPv6 address in brackets.                                             *)
HasPort(s) ==
    \E j \in 1..(Len(s) - 1) :
        /\ s[j] = ":"
        /\ \A k \in (j + 1)..Len(s) : s[k] \in Digits
        /\ j > 1
        /\ \/ \A k \in 1..(j - 1) : s[k] # ":"
           \/ s[1] = "[" /\ s[j - 1] = "]"

(* C20 as stated: the target of the exchanges is the server address with    *)
(* ":853" appended when the address carries no port, and the address itself *)
(* when it carries one; normalizing the target again changes nothing; every *)
(* attempt is given that target.                                            *)
C20_DoTTargetNormalized ==
    dotPc \in {"loop", "backoff", "returned"} =>
        /\ dotTarget = (IF HasPort(dotServer) THEN dotServer
                        ELSE dotServer \o DefaultDoTPort)
        /\ NormalizeDoT(dotTarget) = dotTarget
        /\ \A k \in 1..Len(dotDialed) : dotDialed[k] = dotTarget


----------------------------------------------------------------------------
(* Properties: DoH application-layer failures *)

(* C21 as stated: in queryDoH an attempt that fails at the application      *)
(* layer (HTTP status, body, decoding) is treated like a transport          *)
(* failure: it counts toward the R+1 attempts, the next attempt comes       *)
(* after the backoff wait, and on exhaustion with a live context the error  *)
(* of the last attempt is returned.                                         *)
C21_DoHAppFailureRetriedWithBackoff ==
    \A i \in Tasks :
        (cfg.Protocol = DoH /\ lastAttempt[i].kind = "app") =>
            /\ attempts[i] <= cfg.Retries + 1
            /\ pc[i] \in {"backoff", "attempt", "done"}
            /\ pc[i] = "attempt" => Len(waits[i]) = attempts[i]
            /\ pc[i] = "backoff" => Len(waits[i]) = attempts[i] - 1
            /\ (pc[i] = "done" /\ ctx = "live") =>
                  /\ attempts[i] = cfg.Retries + 1
                  /\ ret[i].err = lastAttempt[i].err


----------------------------------------------------------------------------
(* Properties of the tunneled exchange (SpecTimed) *)

(* C22: a connection dialed through the proxy is open only while its own    *)
(* exchange is in the select; when the exchange has returned (result        *)
(* received, whatever step failed, or cancellation) it is closed.           *)
C22_ConnClosedOnEveryExit ==
    \A k \in Attempts :
        conn[k] = "open" => (qpc = "select" /\ k = cur)

C22_Witness ==
    /\ qcfg.Protocol = DoT
    /\ conn[1] = "closed" /\ conn[2] = "closed"
    /\ qi = 1 /\ qpc = "returned"
    /\ lastExchange.err = ErrCanceled
    /\ worker[2] = "handshake"


(* C23 as stated: the tunneled connection is closed by the goroutine of the *)
(* exchange on its own exit path, so a connection is never closed while    *)
(* its goroutine is still in the handshake, the write or the read.          *)
C23_ConnClosedByTaskOnly ==
    \A k \in Attempts :
        conn[k] = "closed" => worker[k] = "done"


(* C24: when the context has a deadline, the connection of every goroutine  *)
(* that does I/O carries that deadline from before the goroutine's first    *)
(* step; from the deadline on, a handshake, write or read of the goroutine  *)
(* does not wait and does not succeed: the goroutine's next step sends an   *)
(* error and ends, also after the caller has returned.                      *)
C24_DeadlineSetBeforeIO ==
    [][\A k \in Attempts :
          (deadline # NoDeadline /\ worker[k] \in {"handshake", "write", "read"}) =>
              /\ connDeadline[k] = deadline
              /\ now >= deadline =>
                    /\ now' = now
                    /\ worker'[k] # worker[k] =>
                          /\ worker'[k] = "done"
                          /\ tchan'[k] # << >>
                          /\ tchan'[k][Len(tchan'[k])].err # Nil]_vars

C24_Witness ==
    /\ deadline = 2 /\ now = 2
    /\ qpc = "returned" /\ qret.err = ErrDeadline
    /\ conn[1] = "closed" /\ connDeadline[1] = 2
    /\ worker[1] = "done"
    /\ tchan[1] # << >> /\ tchan[1][1].err = ErrRead


(* C26: the goroutine of a tunneled exchange sends exactly one value on its *)
(* resultChan and never finds the channel full: its channel holds no value  *)
(* before the goroutine ends, one value at most ever, and the send is       *)
(* possible also when the exchange has returned and nobody receives.        *)
C26_SingleSlotSendNeverBlocks ==
    \A k \in Attempts :
        /\ Len(tchan[k]) <= 1
        /\ worker[k] \in {"none", "handshake", "write", "read"} => tchan[k] = << >>
        /\ worker[k] \in {"handshake", "write", "read"} => ENABLED WorkerStep(k)
        /\ (worker[k] = "done" /\ tchan[k] = << >>) =>
              (conn[k] = "closed" /\ (k < cur \/ qpc # "select"))

C26_Witness ==
    /\ qpc = "returned" /\ qret.err = ErrCanceled
    /\ lastExchange.err = ErrCanceled
    /\ worker[cur] = "done"
    /\ Len(tchan[cur]) = 1
    /\ tchan[cur][1].err = Nil


----------------------------------------------------------------------------
(* Properties: shared state of a fan-out *)

(* A step of the task of server i. *)
TaskStep(i) ==
    /\ pc[i] # "idle"
    /\ <<pc[i], loopi[i], attempts[i], waits[i], ret[i]>>'
          # <<pc[i], loopi[i], attempts[i], waits[i], ret[i]>>

(* C25: no step changes the Config; a step of a per-server task leaves      *)
(* Results, AllIPs and the dedup set alone and at most appends one value    *)
(* to the aggregation channel; Results, AllIPs and the dedup set change     *)
(* only in a step of the caller, in which no task moves.                    *)
C25_NoSharedWrites ==
    [][/\ cfg' = cfg
       /\ (\E i \in Tasks : TaskStep(i)) =>
             /\ result' = result
             /\ ipSet' = ipSet
             /\ \/ resultChan' = resultChan
                \/ /\ Len(resultChan') = Len(resultChan) + 1
                   /\ SubSeq(resultChan', 1, Len(resultChan)) = resultChan
       /\ (result' # result \/ ipSet' # ipSet) =>
             /\ mpc \in {"call", "collect"}
             /\ taskVars' = taskVars]_vars

C25_Witness ==
    /\ MultiQueryDone /\ Len(cfg.Servers) = 2
    /\ Len(Returned.Results) = 2
    /\ Returned.AllIPs # << >>
    /\ ipSet # {}
    /\ Returned.Results[1].Error # Nil


(* C27: the aggregation channel made with capacity N never holds more than *)
(* N values and has room whenever a per-server task is still to send; each  *)
(* task that has ended has sent exactly once; when MultiQuery returns every *)
(* task has ended and the channel is empty.                                 *)
C27_AggregationChannelCapacity ==
    call.op = "MultiQuery" =>
        LET n == Len(cfg.Servers)
            ended == { i \in Tasks : pc[i] = "done" }
        IN /\ Len(resultChan) <= n
           /\ (\E i \in Tasks : pc[i] \in {"start", "attempt", "backoff"}) =>
                 Len(resultChan) < n
           /\ Len(sent) = Cardinality(ended)
           /\ \A i \in ended : Cardinality({ k \in 1..Len(sent) : sent[k] = i }) = 1
           /\ Len(resultChan) + collecti = Len(sent)
           /\ mpc = "done" /\ n >= 1 =>
                 /\ resultChan = << >>
                 /\ ended = 1..n

(* Three servers: all three results are in the channel before the caller    *)
(* has received any.                                                        *)
C27_Witness ==
    /\ call.op = "MultiQuery" /\ Len(cfg.Servers) = 3
    /\ Len(resultChan) = 3 /\ collecti = 0


----------------------------------------------------------------------------
(* Properties: the retry count *)

(* C28 as stated: for every retry count, negative ones included, the retry  *)
(* loop makes at least one attempt and does not return (nil, nil), so       *)
(* queryServer never maps a missing answer: no query panics, and a query    *)
(* that has ended has made an exchange and has a result.                    *)
C28_LoopNeverReturnsNilNil ==
    /\ ~crashed
    /\ \A i \in Tasks :
          (cfg.Protocol \in {UDP, TCP, DoT} /\ pc[i] \in {"done", "panic"}) =>
              /\ attempts[i] >= 1
              /\ ~ret[i].panic
              /\ ret[i].res # NilPtr


----------------------------------------------------------------------------
(* Properties of concurrent tunneled queries (SpecTunnel) *)

(* C31: every value a query's select receives was sent by the goroutine of  *)
(* the very call that receives it (same query, same attempt); an answer a   *)
(* query returns is the one its own last call received; a connection is     *)
(* closed only by the return of its own call.  What the goroutine of an     *)
(* abandoned call sends late stays in that call's channel.                  *)
C31_PerAttemptIsolation ==
    \A q \in Queries :
        /\ \A j \in 1..Len(xgot[q]) : xgot[q][j].from = <<q, xgot[q][j].attempt>>
        /\ (xpc[q] = "returned" /\ xret[q].response # NilPtr) =>
              /\ xgot[q] # << >>
              /\ xgot[q][Len(xgot[q])].from = <<q, xcur(q)>>
              /\ xgot[q][Len(xgot[q])].response = xret[q].response
        /\ \A k \in Attempts :
              /\ xconn[q][k] = "closed" =>
                    (k < xcur(q) \/ (k = xcur(q) /\ xpc[q] \in {"backoff", "returned"}))
              /\ (xchan[q][k] # << >> /\ (k # xcur(q) \/ xpc[q] # "select")) =>
                    /\ xchan[q][k][1].from = <<q, k>>
                    /\ \A j \in 1..Len(xgot[q]) : xgot[q][j].attempt # k

(* Query 1 returned on cancellation and the answer its goroutine sent late  *)
(* is still in its channel; query 2 then received the answer of its own     *)
(* goroutine and returned it.                                               *)
C31_Witness ==
    /\ xpc[1] = "returned" /\ xret[1].err = ErrCanceled
    /\ xchan[1][1] # << >> /\ xchan[1][1][1].err = Nil
    /\ Len(xchan[1][1][1].response[1].Answer) = 1
    /\ xpc[2] = "returned" /\ xret[2].err = Nil
    /\ xret[2].response # NilPtr
    /\ xret[2].response # xchan[1][1][1].response
    /\ xgot[2] # << >>

====
